---- MODULE Spec2Model ----
(***************************************************************************)
(* Verification model of the real-time core of "Flucht von der Dinosaurier *)
(* Insel": the fixed-timestep loop of Game.run, the single-active-scene    *)
(* swap of Game.change_scene, the layered StateStack and the entity        *)
(* StateMachine.                                                           *)
(*                                                                         *)
(* Time is exact: one model time unit is 1/2520 ms, so that the mean of    *)
(* 1..10 integer millisecond samples and fixed_dt = 1/60 s = 42000 units   *)
(* are integers.                                                           *)
(***************************************************************************)
EXTENDS Integers, Sequences, FiniteSets, TLC

VARIABLES
    \* ---- Game (src/game.py)
    running,          \* Game.running
    accumulator,      \* Game.accumulator, in time units
    samples,          \* Game.delta_smoother.samples (deque, ms values)
    current_scene,    \* Game.current_scene (named by its GameState)
    pc,               \* position of Game.run
    events,           \* events of the batch of pygame.event.get() not yet iterated
    exc,              \* exception in flight in Game.run / escaping the last call
    \* ---- observation of Game
    frames,           \* loop iterations started
    total_time,       \* sum of the smoothed frame times added so far
    update_calls,     \* cumulative current_scene.update(fixed_dt) calls
    iter_calls,       \* calls made on scenes in the current iteration, in order
    batch,            \* size of the batch drained in the current iteration
    last_event,       \* event of the latest handle_event call ("" if none)
    cleanup_calls,    \* number of Game.cleanup executions
    quit_frame,       \* iteration in which running was set to False (0: never)
    quit_left,        \* events of the batch still to iterate at that time (-1: never)
    caught,           \* the except clause of Game.run has run
    live,             \* scenes entered and not yet exited
    lifecycle_ok,     \* no on_enter on a live scene, no on_exit on a dead one
    last_calls,       \* lifecycle calls of the last handler that changed scene
    last_req,         \* target of the last change_scene ("" before the first)
    prev_scene,       \* current_scene before the last change_scene
    unknown_req,      \* an unregistered target was requested at some time
    \* ---- StateMachine (src/engine/state_machine.py)
    sm_states,        \* StateMachine.states (registered state names)
    sm_current,       \* StateMachine.current_state (its name, or "None")
    sm_entity,        \* StateMachine.entity ("None" if unset)
    \* ---- observation of StateMachine
    sm_op,            \* the last StateMachine method called
    sm_req,           \* the state name it was given (update: the name returned)
    sm_prev,          \* current_state before that call
    sm_calls,         \* enter/update/exit calls made on states by that call
    \* ---- StateStack (src/engine/state_stack.py)
    states,           \* StateStack.states, bottom first
    pending_actions,  \* StateStack.pending_actions
    \* ---- observation of StateStack
    stack_op,         \* the last StateStack method called from outside
    states_before,    \* states when that call began
    pending_before,   \* pending_actions when that call began
    stack_calls,      \* calls made on layers by that call, in order
    stack_asked,      \* push/pop/replace/clear calls not yet applied, in call order
    applied,          \* the actions applied by the last update, in call order
    paused,           \* layers that got on_pause and neither on_resume nor on_exit since
    resume_ok,        \* every on_resume so far went to a paused layer
    stack_exc,        \* exception escaping the last StateStack call
    \* ---- world of a game session (src/game.py, src/collision_manager.py)
    player,           \* Game.player: x, y, hp, repellent_active, inventory, score, ...
    dinosaurs,        \* Game.dinosaurs, each with x, y, aggressive, just_attacked
    items,            \* Game.items, each with x, y, type (id: the object's identity)
    lava_fields,      \* Game.lava_fields
    spikes_enabled,   \* Config.SPIKES_ENABLED
    \* ---- observation of check_collisions
    col_op,           \* the last operation on the world
    col_before,       \* player, dinosaurs and items when the last check_collisions began
    col_events,       \* events emitted by the last check_collisions, in order
    col_ticks,        \* check_collisions calls so far
    lava_run,         \* consecutive calls with the player on lava and no other hazard
    run_hp0,          \* hp when that run began
    \* ---- EventBus (src/engine/event_bus.py)
    listeners,        \* EventBus.listeners: event type -> callbacks, in order
    \* ---- observation of EventBus
    bus_op,           \* the last EventBus method called
    bus_event,        \* its event type
    bus_raising,      \* emit: the callbacks that raise when called
    bus_calls,        \* emit: the callbacks called, in order
    bus_errors,       \* emit: the callbacks whose exception was logged, in order
    bus_exc,          \* exception escaping the last EventBus call
    bus_before,       \* the listeners of the event when the last emit began
    bus_unsub,        \* <<cb, target>>: cb called unsubscribe(ev, target) during that emit
    \* ---- SpatialGrid (src/engine/spatial_grid.py) and its use by PlayingScene
    grid,             \* SpatialGrid.grid: (cell_x, cell_y) -> entities (by id), in order
    in_session,       \* the playing scene is the current scene
    sessions,         \* Game.reset_game calls so far
    \* ---- observation of SpatialGrid
    grid_inserted,    \* the entities inserted since the last clear, in order
    grid_op,          \* the last operation on the grid
    grid_query,       \* the rectangle of the last query_range
    grid_result,      \* the entities (by id) the last query_range returned
    \* ---- timers of a game session (src/game.py, src/scenes/playing_scene.py)
    clock,            \* time.time(), in seconds
    start_time,       \* PlayingScene.start_time
    last_lava_time,   \* Game.last_lava_time
    boat_active,      \* Game.boat_active
    showing_lava_warning, \* PlayingScene.showing_lava_warning
    \* ---- observation of the session timers
    ses_op,           \* the last handler that ran
    ses_before,       \* lava_fields, last_lava_time, boat_active, start_time before it
    ses_spawned,      \* it called spawn_lava
    ses_generated,    \* the tiles that spawn_lava call returned
    boat_calls,       \* place_boat calls since the last reset_game
    boat_due_seen,    \* an update since the last reset_game found the boat due
    warn_calls,       \* hud.trigger_flash calls since the last eruption or reset_game
    \* ---- a DeltaSmoother of its own (src/engine/delta_smoother.py)
    ds_size,          \* DeltaSmoother.sample_size
    ds_samples,       \* DeltaSmoother.samples (deque, ms values)
    ds_smoothed,      \* DeltaSmoother.smoothed_dt, in time units
    \* ---- observation of the DeltaSmoother
    ds_op,            \* the last method called
    ds_raw,           \* the raw frame times passed to smooth since __init__ / reset
    \* ---- Camera (src/engine/camera.py)
    camera,           \* the Camera object: its attributes, by name
    \* ---- observation of the Camera
    cam_op,           \* the last method called
    cam_args,         \* its arguments
    cam_before,       \* the Camera's attributes when that call began
    cam_updates,      \* Camera.update calls so far
    cam_screen,       \* world_to_screen: the pixel returned
    cam_world,        \* screen_to_world of that pixel: the world point returned
    \* ---- ParticleSystem (src/engine/particle_system.py)
    particles,        \* ParticleSystem.particles: the list of Particle objects
    \* ---- observation of the ParticleSystem
    ps_op,            \* the last method called
    ps_dt,            \* the dt of the last update
    ps_before,        \* the list when that call began
    ps_updated,       \* update: every particle of the list after its Particle.update
    ps_created,       \* Particle objects constructed so far
    ps_removed,       \* the particles that an update or clear has dropped
    ps_updates,       \* ParticleSystem.update calls so far
    \* ---- Transition (src/engine/transitions.py)
    transition,       \* the Transition object: its attributes, by name
    tr_obs,           \* observation: the last call, the fade started last, time since
    \* ---- Animation (src/engine/animation_controller.py)
    animation,        \* the Animation object: its attributes, by name
    an_obs            \* observation: the last call, on_complete calls, updates

timeVars == <<accumulator, samples, total_time, update_calls>>
loopVars == <<running, pc, events, frames, iter_calls, batch, last_event, quit_frame,
              quit_left>>
exitVars == <<cleanup_calls, caught>>
gameVars == <<timeVars, loopVars, exitVars>>
lifeVars == <<current_scene, live, lifecycle_ok, last_calls, last_req, prev_scene,
              unknown_req>>
sceneVars == <<lifeVars, exc>>
smVars == <<sm_states, sm_current, sm_entity, sm_op, sm_req, sm_prev, sm_calls>>
stackVars == <<states, pending_actions, stack_op, states_before, pending_before,
               stack_calls,
               stack_asked, applied, paused, resume_ok, stack_exc>>
collideVars == <<player, dinosaurs, items, lava_fields, spikes_enabled, col_op,
                 col_before, col_events, col_ticks, lava_run, run_hp0>>
busVars == <<listeners, bus_op, bus_event, bus_raising, bus_calls, bus_errors, bus_exc,
             bus_before, bus_unsub>>
gridVars == <<grid, in_session, sessions, grid_inserted, grid_op, grid_query, grid_result>>
worldVars == <<collideVars, busVars, gridVars>>
sessionVars == <<clock, start_time, last_lava_time, boat_active, showing_lava_warning,
                 ses_op, ses_before, ses_spawned, ses_generated, boat_calls, boat_due_seen,
                 warn_calls>>
smootherVars == <<ds_size, ds_samples, ds_smoothed, ds_op, ds_raw>>
cameraVars == <<camera, cam_op, cam_args, cam_before, cam_updates, cam_screen, cam_world>>
particleVars == <<particles, ps_op, ps_dt, ps_before, ps_updated, ps_created, ps_removed,
                  ps_updates>>
transitionVars == <<transition, tr_obs>>
animationVars == <<animation, an_obs>>
fxVars == <<sessionVars, smootherVars, cameraVars, particleVars, transitionVars,
           animationVars>>
\* the components of fxVars other than the one named
fxButSession == <<smootherVars, cameraVars, particleVars, transitionVars, animationVars>>
fxButSmoother == <<sessionVars, cameraVars, particleVars, transitionVars, animationVars>>
fxButCamera == <<sessionVars, smootherVars, particleVars, transitionVars, animationVars>>
fxButParticles == <<sessionVars, smootherVars, cameraVars, transitionVars, animationVars>>
fxButTransition == <<sessionVars, smootherVars, cameraVars, particleVars, animationVars>>
fxButAnimation == <<sessionVars, smootherVars, cameraVars, particleVars, transitionVars>>
engineVars == <<smVars, stackVars, worldVars, fxVars>>
vars == <<gameVars, sceneVars, engineVars>>

-----------------------------------------------------------------------------
(* Bounds of the model *)

\* loop iterations explored in Game.run
MaxFrames == 3
\* events returned by one pygame.event.get()
MaxBatch == 2
\* stack actions queued between two applications
MaxPending == 2
\* check_collisions calls of one session
MaxTicks == 3
\* entities inserted into the spatial grid
MaxEntities == 2
\* game sessions (Game.reset_game calls)
MaxSessions == 2
\* seconds of wall-clock time explored
MaxClock == 8
\* calls of DeltaSmoother.smooth beyond the size of its window
MaxExtra == 2
\* Camera.update calls explored
MaxCamUpdates == 3
\* Particle objects constructed
MaxParticles == 3
\* ParticleSystem.update calls explored
MaxParticleUpdates == 3
\* Transition.update calls explored
MaxTransitionUpdates == 5
\* Animation.update calls explored
MaxAnimationUpdates == 4

-----------------------------------------------------------------------------
(* Helpers *)

RECURSIVE SumSeq(_)
SumSeq(s) == IF s = <<>> THEN 0 ELSE Head(s) + SumSeq(Tail(s))

Max2(a, b) == IF a >= b THEN a ELSE b
Min2(a, b) == IF a <= b THEN a ELSE b

-----------------------------------------------------------------------------
(* DeltaSmoother (src/engine/delta_smoother.py) *)

\* time units per millisecond: lcm(1..10), so every window mean is an integer
UnitsPerMs == 8 * 9 * 5 * 7

\* DeltaSmoother(sample_size=10)
SampleSize == 10

\* mutant: the frame time has no upper limit
ClampDtNoUpper(dt) == Max2(1, dt)

\* dt = max(0.001, min(0.1, dt)), in ms
ClampDt(dt) == Max2(1, Min2(100, dt))

\* mutant: a deque without maxlen
DequeAppendUnbounded(q, x, maxlen) == Append(q, x)

\* deque(maxlen=maxlen).append
DequeAppendMax(q, x, maxlen) ==
    IF Len(q) >= maxlen THEN Append(Tail(q), x) ELSE Append(q, x)

\* deque(maxlen=sample_size).append
DequeAppend(q, x) == DequeAppendMax(q, x, SampleSize)

\* samples after smooth(dt)
SmoothSamples(q, dt) == DequeAppend(q, ClampDt(dt))

\* value returned by smooth(dt), in time units, given the samples after append
SmoothedDt(q) == (SumSeq(q) * UnitsPerMs) \div Len(q)

-----------------------------------------------------------------------------
(* Scenes and Game.change_scene (src/game.py, src/scenes/*.py) *)

\* keys of Game.scenes
Registered == {"MAIN_MENU", "INTRO", "HELP", "PAUSE", "GAME_OVER", "WON", "PLAYING"}

\* a GameState value with no entry in Game.scenes
Unregistered == {"CREDITS"}

\* mutant: the new scene is entered before the old one is exited
ChangeSceneEnterFirst(g, new) ==
    LET cur == g.current
        g0 == [g EXCEPT !.prev = cur, !.req = new]
    IN IF new \notin Registered
       THEN [g0 EXCEPT !.exc = "KeyError"]
       ELSE LET g1 == [g0 EXCEPT !.current = new,
                                 !.calls = Append(@, <<"on_enter", new>>),
                                 !.live = @ \cup {new},
                                 !.ok = @ /\ new \notin g.live]
            IN [g1 EXCEPT !.calls = Append(@, <<"on_exit", cur>>),
                          !.live = @ \ {cur},
                          !.ok = @ /\ cur \in g1.live]

\* Game.change_scene(new_state) applied to the scene part g of the state:
\* on_exit of the current scene, then the dictionary lookup (KeyError for an
\* unregistered key), then on_enter of the new scene.
ChangeScene(g, new) ==
    LET cur == g.current
        g1 == [g EXCEPT !.calls = Append(@, <<"on_exit", cur>>),
                        !.live = @ \ {cur},
                        !.ok = @ /\ cur \in g.live,
                        !.prev = cur,
                        !.req = new]
    IN IF new \notin Registered
       THEN [g1 EXCEPT !.exc = "KeyError"]
       ELSE [g1 EXCEPT !.current = new,
                       !.calls = Append(@, <<"on_enter", new>>),
                       !.live = @ \cup {new},
                       !.ok = @ /\ new \notin g1.live]

\* the scene part of the state as a record, at the start of one handler
SceneRec == [current |-> current_scene, live |-> live, ok |-> lifecycle_ok,
             calls |-> <<>>, exc |-> "none", prev |-> prev_scene,
             req |-> last_req]

RECURSIVE ChangeSceneSeq(_, _)
\* successive change_scene calls made by one handler; a raised exception
\* ends the handler
ChangeSceneSeq(g, targets) ==
    IF targets = <<>> \/ g.exc # "none" THEN g
    ELSE ChangeSceneSeq(ChangeScene(g, Head(targets)), Tail(targets))

\* the assignments of a handler's change_scene calls
SetScene(g) ==
    IF g.calls = <<>> THEN UNCHANGED sceneVars
    ELSE /\ current_scene' = g.current
         /\ live' = g.live
         /\ lifecycle_ok' = g.ok
         /\ last_calls' = g.calls
         /\ last_req' = g.req
         /\ prev_scene' = g.prev
         /\ unknown_req' = (unknown_req \/ g.req \notin Registered)
         /\ exc' = g.exc

\* Game.__init__: current_scene = scenes[MAIN_MENU]; current_scene.on_enter()
SceneInit ==
    /\ current_scene = "MAIN_MENU"
    /\ live = {"MAIN_MENU"}
    /\ lifecycle_ok = TRUE
    /\ last_calls = <<<<"on_enter", "MAIN_MENU">>>>
    /\ last_req = ""
    /\ prev_scene = ""
    /\ unknown_req = FALSE
    /\ exc = "none"

-----------------------------------------------------------------------------
(* Scene handlers (src/scenes/*.py): what a handler asks of the Game *)

EventKinds == {"QUIT", "K_RETURN", "K_h", "K_q", "K_ESCAPE", "K_SPACE", "MOUSEMOTION"}

\* event.type == pygame.KEYDOWN
IsKeyDown(ev) == ev \in {"K_RETURN", "K_h", "K_q", "K_ESCAPE", "K_SPACE"}

\* Scene.handle_event(event): the change_scene targets it requests, in order
HandleEventTargets(scene, ev) ==
    CASE scene = "MAIN_MENU" /\ ev = "K_RETURN"  -> <<"INTRO">>
      [] scene = "MAIN_MENU" /\ ev = "K_h"       -> <<"HELP">>
      [] scene = "INTRO" /\ IsKeyDown(ev)        -> <<"PLAYING">>
      [] scene = "HELP" /\ IsKeyDown(ev)         -> <<"MAIN_MENU">>
      [] scene = "PAUSE" /\ ev = "K_ESCAPE"      -> <<"PLAYING">>
      [] scene = "PAUSE" /\ ev = "K_h"           -> <<"HELP">>
      [] scene = "GAME_OVER" /\ ev = "K_RETURN"  -> <<"MAIN_MENU">>
      [] scene = "WON" /\ ev = "K_RETURN"        -> <<"MAIN_MENU">>
      [] scene = "PLAYING" /\ ev = "K_ESCAPE"    -> <<"PAUSE">>
      [] OTHER                                   -> <<>>

\* Scene.handle_event(event) sets game.running = False (Q in menu and pause)
HandleEventQuits(scene, ev) == scene \in {"MAIN_MENU", "PAUSE"} /\ ev = "K_q"

\* PlayingScene.update: win condition, then lose condition, both may fire
UpdateTargets(scene, win, dead) ==
    IF scene # "PLAYING" THEN <<>>
    ELSE (IF win THEN <<"WON">> ELSE <<>>) \o (IF dead THEN <<"GAME_OVER">> ELSE <<>>)

-----------------------------------------------------------------------------
(* Game.run and Game.cleanup (src/game.py) *)

\* self.fixed_dt = 1 / 60.0 s, in time units (1000/60 ms * 2520)
FixedDt == 42000

\* raw values of clock.tick(), in ms: below the clamp, typical, above the
\* clamp (the clamped value, 100 ms, is an exact multiple of fixed_dt)
RawTimes == {0, 17, 250}

\* mutant: the loop test written with > instead of >=
NeedsUpdateStrict(acc) == acc > FixedDt

\* while self.accumulator >= self.fixed_dt
NeedsUpdate(acc) == acc >= FixedDt

\* Game.__init__
GameInit ==
    /\ running = TRUE
    /\ accumulator = 0
    /\ samples = <<>>
    /\ pc = "loop"
    /\ events = 0
    /\ frames = 0
    /\ total_time = 0
    /\ update_calls = 0
    /\ iter_calls = <<>>
    /\ batch = 0
    /\ last_event = ""
    /\ cleanup_calls = 0
    /\ quit_frame = 0
    /\ quit_left = -1
    /\ caught = FALSE

\* while self.running: tick, smooth, accumulate, events = pygame.event.get()
Tick ==
    /\ UNCHANGED engineVars
    /\ pc = "loop" /\ running /\ frames < MaxFrames
    /\ \E raw \in RawTimes, n \in 0..MaxBatch :
         LET q == SmoothSamples(samples, raw)
             frame_time == SmoothedDt(q)
         IN /\ samples' = q
            /\ accumulator' = accumulator + frame_time
            /\ total_time' = total_time + frame_time
            /\ events' = n
            /\ batch' = n
    /\ frames' = frames + 1
    /\ iter_calls' = <<>>
    /\ pc' = "events"
    /\ UNCHANGED <<running, update_calls, last_event, quit_frame, quit_left>>
    /\ UNCHANGED <<exitVars, sceneVars>>

\* mutant: a QUIT event breaks out of the loop at once
DispatchEventBreaks ==
    /\ UNCHANGED engineVars
    /\ pc = "events" /\ events > 0
    /\ \E ev \in EventKinds :
       IF ev = "QUIT"
       THEN /\ running' = FALSE
            /\ quit_frame' = IF running THEN frames ELSE quit_frame
            /\ quit_left' = IF running THEN events - 1 ELSE quit_left
            /\ pc' = "finally"
            /\ UNCHANGED <<iter_calls, last_event, sceneVars>>
       ELSE LET g == ChangeSceneSeq(SceneRec, HandleEventTargets(current_scene, ev))
                q == HandleEventQuits(current_scene, ev)
            IN /\ iter_calls' = Append(iter_calls, "handle_event")
               /\ last_event' = ev
               /\ running' = (running /\ ~q)
               /\ quit_frame' = IF running /\ q THEN frames ELSE quit_frame
               /\ quit_left' = IF running /\ q THEN events - 1 ELSE quit_left
               /\ SetScene(g)
               /\ pc' = IF g.exc = "none" THEN "events" ELSE "except"
    /\ events' = events - 1
    /\ UNCHANGED <<timeVars, exitVars, frames, batch>>

\* for event in events: QUIT clears running, anything else goes to the scene
DispatchEvent ==
    /\ UNCHANGED engineVars
    /\ pc = "events" /\ events > 0
    /\ \E ev \in EventKinds :
       IF ev = "QUIT"
       THEN /\ running' = FALSE
            /\ quit_frame' = IF running THEN frames ELSE quit_frame
            /\ quit_left' = IF running THEN events - 1 ELSE quit_left
            /\ pc' = "events"
            /\ UNCHANGED <<iter_calls, last_event, sceneVars>>
       ELSE LET g == ChangeSceneSeq(SceneRec, HandleEventTargets(current_scene, ev))
                q == HandleEventQuits(current_scene, ev)
            IN /\ iter_calls' = Append(iter_calls, "handle_event")
               /\ last_event' = ev
               /\ running' = (running /\ ~q)
               /\ quit_frame' = IF running /\ q THEN frames ELSE quit_frame
               /\ quit_left' = IF running /\ q THEN events - 1 ELSE quit_left
               /\ SetScene(g)
               /\ pc' = IF g.exc = "none" THEN "events" ELSE "except"
    /\ events' = events - 1
    /\ UNCHANGED <<timeVars, exitVars, frames, batch>>

\* the for loop over the batch is exhausted
EventsDone ==
    /\ UNCHANGED engineVars
    /\ pc = "events" /\ events = 0
    /\ pc' = "updates"
    /\ UNCHANGED <<running, events, frames, iter_calls, batch, last_event, quit_frame, quit_left>>
    /\ UNCHANGED <<timeVars, exitVars, sceneVars>>

\* mutant: the render call sits inside the fixed-step loop
FixedUpdateRenders ==
    /\ UNCHANGED engineVars
    /\ pc = "updates" /\ NeedsUpdate(accumulator)
    /\ \E win \in BOOLEAN, dead \in BOOLEAN :
         LET g == ChangeSceneSeq(SceneRec, UpdateTargets(current_scene, win, dead))
         IN /\ SetScene(g)
            /\ pc' = IF g.exc = "none" THEN "updates" ELSE "except"
            /\ accumulator' = IF g.exc = "none" THEN accumulator - FixedDt ELSE accumulator
    /\ update_calls' = update_calls + 1
    /\ iter_calls' = iter_calls \o <<"update", "render">>
    /\ UNCHANGED <<samples, total_time, exitVars>>
    /\ UNCHANGED <<running, events, frames, batch, last_event, quit_frame, quit_left>>

\* one pass of the while loop: current_scene.update(fixed_dt); accumulator -= fixed_dt
FixedUpdate ==
    /\ UNCHANGED engineVars
    /\ pc = "updates" /\ NeedsUpdate(accumulator)
    /\ \E win \in BOOLEAN, dead \in BOOLEAN :
         LET g == ChangeSceneSeq(SceneRec, UpdateTargets(current_scene, win, dead))
         IN /\ SetScene(g)
            /\ pc' = IF g.exc = "none" THEN "updates" ELSE "except"
            /\ accumulator' = IF g.exc = "none" THEN accumulator - FixedDt ELSE accumulator
    /\ update_calls' = update_calls + 1
    /\ iter_calls' = Append(iter_calls, "update")
    /\ UNCHANGED <<samples, total_time, exitVars>>
    /\ UNCHANGED <<running, events, frames, batch, last_event, quit_frame, quit_left>>

\* the while loop ends
UpdatesDone ==
    /\ UNCHANGED engineVars
    /\ pc = "updates" /\ ~NeedsUpdate(accumulator)
    /\ pc' = "render"
    /\ UNCHANGED <<running, events, frames, iter_calls, batch, last_event, quit_frame, quit_left>>
    /\ UNCHANGED <<timeVars, exitVars, sceneVars>>

\* window.fill; current_scene.render(window); display.flip
Render ==
    /\ UNCHANGED engineVars
    /\ pc = "render"
    /\ iter_calls' = Append(iter_calls, "render")
    /\ pc' = "loop"
    /\ UNCHANGED <<running, events, frames, batch, last_event, quit_frame, quit_left>>
    /\ UNCHANGED <<timeVars, exitVars, sceneVars>>

\* a handle_event, update or render call made by the loop body raises
LoopBodyRaises ==
    /\ UNCHANGED engineVars
    /\ \/ /\ pc = "events" /\ events > 0
          /\ iter_calls' = Append(iter_calls, "handle_event")
          /\ \E ev \in EventKinds \ {"QUIT"} : last_event' = ev
          /\ update_calls' = update_calls
       \/ /\ pc = "updates" /\ NeedsUpdate(accumulator)
          /\ iter_calls' = Append(iter_calls, "update")
          /\ update_calls' = update_calls + 1
          /\ last_event' = last_event
       \/ /\ pc = "render"
          /\ iter_calls' = Append(iter_calls, "render")
          /\ update_calls' = update_calls
          /\ last_event' = last_event
    /\ exc' = "Exception"
    /\ pc' = "except"
    /\ UNCHANGED <<accumulator, samples, total_time, exitVars, lifeVars>>
    /\ UNCHANGED <<running, events, frames, batch, quit_frame, quit_left>>

\* mutant: the except clause also calls cleanup
ExceptClauseCleansUp ==
    /\ UNCHANGED engineVars
    /\ pc = "except"
    /\ exc' = "none"
    /\ caught' = TRUE
    /\ cleanup_calls' = cleanup_calls + 1
    /\ pc' = "finally"
    /\ UNCHANGED <<running, events, frames, iter_calls, batch, last_event, quit_frame,
                   quit_left>>
    /\ UNCHANGED <<timeVars, lifeVars>>

\* except Exception as e: logger.error(...)
ExceptClause ==
    /\ UNCHANGED engineVars
    /\ pc = "except"
    /\ exc' = "none"
    /\ caught' = TRUE
    /\ pc' = "finally"
    /\ UNCHANGED <<running, events, frames, iter_calls, batch, last_event, quit_frame, quit_left>>
    /\ UNCHANGED <<timeVars, cleanup_calls, lifeVars>>

\* the while condition is false: the try block ends normally
LoopExit ==
    /\ UNCHANGED engineVars
    /\ pc = "loop" /\ ~running
    /\ pc' = "finally"
    /\ UNCHANGED <<running, events, frames, iter_calls, batch, last_event, quit_frame, quit_left>>
    /\ UNCHANGED <<timeVars, exitVars, sceneVars>>

\* finally: self.cleanup() -- stop sounds and music, pygame.quit(), sys.exit()
Cleanup ==
    /\ UNCHANGED engineVars
    /\ pc = "finally"
    /\ cleanup_calls' = cleanup_calls + 1
    /\ exc' = "SystemExit"
    /\ pc' = "exited"
    /\ UNCHANGED <<running, events, frames, iter_calls, batch, last_event, quit_frame, quit_left>>
    /\ UNCHANGED <<timeVars, caught, lifeVars>>

-----------------------------------------------------------------------------
(* Exact arithmetic on fractions <<numerator, denominator>>, denominator > 0 *)

Abs(i) == IF i >= 0 THEN i ELSE -i

RECURSIVE GCD(_, _)
GCD(a, b) == IF b = 0 THEN a ELSE GCD(b, a % b)

\* the fraction n / d in lowest terms, d > 0
RNorm(n, d) ==
    IF n = 0 THEN <<0, 1>>
    ELSE LET g == GCD(Abs(n), d) IN <<n \div g, d \div g>>

\* the integer i as a fraction
R(i) == <<i, 1>>

RAdd(a, b) ==
    LET g == GCD(a[2], b[2])
    IN RNorm(a[1] * (b[2] \div g) + b[1] * (a[2] \div g), (a[2] \div g) * b[2])
RNeg(a) == <<-a[1], a[2]>>
RSub(a, b) == RAdd(a, RNeg(b))
RMul(a, b) ==
    LET p == RNorm(a[1], b[2])
        q == RNorm(b[1], a[2])
    IN <<p[1] * q[1], p[2] * q[2]>>
\* a / b for b # 0
RDiv(a, b) == RMul(a, IF b[1] > 0 THEN <<b[2], b[1]>> ELSE <<-b[2], -b[1]>>)
RECURSIVE RLt(_, _)
\* a < b, by the integer parts and then the reciprocals of the remainders
RLt(a, b) ==
    LET fa == a[1] \div a[2]
        fb == b[1] \div b[2]
        ra == a[1] % a[2]
        rb == b[1] % b[2]
    IN IF fa # fb THEN fa < fb
       ELSE IF rb = 0 THEN FALSE
       ELSE IF ra = 0 THEN TRUE
       ELSE RLt(<<b[2], rb>>, <<a[2], ra>>)
RLe(a, b) == ~RLt(b, a)
RAbs(a) == <<Abs(a[1]), a[2]>>
\* Python's max and min
RMax(a, b) == IF RLt(a, b) THEN b ELSE a
RMin(a, b) == IF RLt(b, a) THEN b ELSE a
\* Python's int(): truncation towards zero
RInt(a) == IF a[1] >= 0 THEN a[1] \div a[2] ELSE -((-a[1]) \div a[2])

-----------------------------------------------------------------------------
(* Coordinates *)

\* tile coordinates are floats: the model keeps them in units of 1/PosScale tile
PosScale == 2

-----------------------------------------------------------------------------
(* EventBus (src/engine/event_bus.py) *)

EventTypes == {"player_damaged", "item_picked_up"}

\* the callbacks that get subscribed
Handlers == {"h1", "h2", "h3"}

\* EventBus.__init__
BusInit ==
    /\ listeners = <<>>
    /\ bus_op = "init"
    /\ bus_event = ""
    /\ bus_raising = {}
    /\ bus_calls = <<>>
    /\ bus_errors = <<>>
    /\ bus_exc = "none"
    /\ bus_before = <<>>
    /\ bus_unsub = <<>>

\* callback in self.listeners[event_type]
Subscribed(l, ev, cb) == ev \in DOMAIN l /\ \E n \in 1..Len(l[ev]) : l[ev][n] = cb

\* EventBus.subscribe
Subscribe(l, ev, cb) ==
    LET l1 == [e \in DOMAIN l \cup {ev} |-> IF e \in DOMAIN l THEN l[e] ELSE <<>>]
    IN IF Subscribed(l1, ev, cb) THEN l1 ELSE [l1 EXCEPT ![ev] = Append(@, cb)]

RECURSIVE RemoveFirst(_, _)
RemoveFirst(q, cb) ==
    IF q = <<>> THEN q
    ELSE IF Head(q) = cb THEN Tail(q)
    ELSE <<Head(q)>> \o RemoveFirst(Tail(q), cb)

\* EventBus.unsubscribe
Unsubscribe(l, ev, cb) ==
    IF Subscribed(l, ev, cb) THEN [l EXCEPT ![ev] = RemoveFirst(@, cb)] ELSE l

RECURSIVE EmitNoTry(_, _, _, _)
\* mutant: the callback is called outside a try block
EmitNoTry(q, n, raising, out) ==
    IF n > Len(q) \/ out.exc # "none" THEN out
    ELSE EmitNoTry(q, n + 1, raising,
                   [out EXCEPT !.calls = Append(@, q[n]),
                               !.exc = IF q[n] \in raising THEN "Exception" ELSE @])

RECURSIVE EmitLoop(_, _, _, _)
\* the loop of EventBus.emit over the callbacks q, from index n on
EmitLoop(q, n, raising, out) ==
    IF n > Len(q) THEN out
    ELSE EmitLoop(q, n + 1, raising,
                  [out EXCEPT !.calls = Append(@, q[n]),
                              !.errors = IF q[n] \in raising THEN Append(@, q[n]) ELSE @])

\* EventBus.emit
BusEmit(l, ev, raising) ==
    LET out == [calls |-> <<>>, errors |-> <<>>, exc |-> "none"]
    IN IF ev \in DOMAIN l THEN EmitLoop(l[ev], 1, raising, out) ELSE out

BusObserve(op, ev) ==
    /\ bus_op' = op
    /\ bus_event' = ev
    /\ bus_raising' = {}
    /\ bus_calls' = <<>>
    /\ bus_errors' = <<>>
    /\ bus_exc' = "none"
    /\ bus_before' = <<>>
    /\ bus_unsub' = <<>>

BusSubscribe(ev, cb) ==
    /\ listeners' = Subscribe(listeners, ev, cb)
    /\ BusObserve("subscribe", ev)
    /\ UNCHANGED <<gameVars, sceneVars, fxVars, smVars, stackVars, collideVars, gridVars>>

BusUnsubscribe(ev, cb) ==
    /\ listeners' = Unsubscribe(listeners, ev, cb)
    /\ BusObserve("unsubscribe", ev)
    /\ UNCHANGED <<gameVars, sceneVars, fxVars, smVars, stackVars, collideVars, gridVars>>

\* EventBus.clear_all
BusClearAll ==
    /\ listeners' = <<>>
    /\ BusObserve("clear_all", "")
    /\ UNCHANGED <<gameVars, sceneVars, fxVars, smVars, stackVars, collideVars, gridVars>>

\* EventBus.emit(ev, ...), the callbacks in raising raise an Exception
BusEmitCall(ev, raising) ==
    /\ \E out \in {BusEmit(listeners, ev, raising)} :
          /\ bus_calls' = out.calls
          /\ bus_errors' = out.errors
          /\ bus_exc' = out.exc
    /\ bus_op' = "emit"
    /\ bus_event' = ev
    /\ bus_raising' = raising
    /\ bus_before' = <<>>
    /\ bus_unsub' = <<>>
    /\ UNCHANGED listeners
    /\ UNCHANGED <<gameVars, sceneVars, fxVars, smVars, stackVars, collideVars, gridVars>>

\* the loop of EventBus.emit over the list self.listeners[ev] itself, from
\* index n on: the list iterator reads the list as it is at each step, and
\* the callback unsub[1] calls unsubscribe(ev, unsub[2])
RECURSIVE EmitLive(_, _, _, _, _)
EmitLive(l, ev, n, unsub, out) ==
    IF n > Len(l[ev]) THEN [out EXCEPT !.listeners = l]
    ELSE LET cb == l[ev][n]
             l1 == IF cb = unsub[1] THEN Unsubscribe(l, ev, unsub[2]) ELSE l
         IN EmitLive(l1, ev, n + 1, unsub, [out EXCEPT !.calls = Append(@, cb)])

\* who unsubscribes whom during an emit
Unsubs == Handlers \X Handlers

\* EventBus.emit(ev, ...) while the callback unsub[1] unsubscribes unsub[2]
\* from the same event
BusEmitUnsubscribing(ev, unsub) ==
    /\ ev \in DOMAIN listeners
    /\ Subscribed(listeners, ev, unsub[1])
    /\ \E out \in {EmitLive(listeners, ev, 1, unsub,
                             [calls |-> <<>>, listeners |-> listeners])} :
          /\ bus_calls' = out.calls
          /\ listeners' = out.listeners
    /\ bus_op' = "emit_unsubscribing"
    /\ bus_event' = ev
    /\ bus_raising' = {}
    /\ bus_errors' = <<>>
    /\ bus_exc' = "none"
    /\ bus_before' = listeners[ev]
    /\ bus_unsub' = unsub
    /\ UNCHANGED <<gameVars, sceneVars, fxVars, smVars, stackVars, collideVars, gridVars>>

-----------------------------------------------------------------------------
(* SpatialGrid (src/engine/spatial_grid.py) *)

\* SpatialGrid(cell_size=10) of the playing scene
cell_size == 10

\* Config.MAP_WIDTH, Config.MAP_HEIGHT: the map of the model has 2 x 2 cells
MAP_WIDTH == 20
MAP_HEIGHT == 20

\* coordinates used, in units of 1/PosScale tile: 0.0, 9.5, 10.0 and 19.5 tiles
GridCoords == {0, 19, 20, 39}

\* an entity with x and y attributes; id stands for the object's identity
Entity(id, x, y) == [id |-> id, x |-> x, y |-> y]

\* the entities offered to insert: one more object than the grid is given
\* at a time, at the positions of GridCoords
Entities ==
    {Entity(id, x, y) : id \in 1..(MaxEntities + 1), x \in GridCoords, y \in GridCoords}

\* int(v // self.cell_size) for a coordinate in units of 1/PosScale tile
CellOf(v) == v \div (cell_size * PosScale)

\* int(v // self.cell_size) for a whole number of tiles
CellOfTile(v) == v \div cell_size

\* SpatialGrid.__init__
GridInit ==
    /\ grid = <<>>
    /\ in_session = FALSE
    /\ sessions = 0
    /\ grid_inserted = <<>>
    /\ grid_op = "init"
    /\ grid_query = <<>>
    /\ grid_result = <<>>

\* mutant: the bucket is replaced by a list with the new entity
InsertOverwrite(gr, e) ==
    LET key == <<CellOf(e.x), CellOf(e.y)>>
        g1 == [k \in DOMAIN gr \cup {key} |-> IF k \in DOMAIN gr THEN gr[k] ELSE <<>>]
    IN [g1 EXCEPT ![key] = <<e.id>>]

\* SpatialGrid.insert
Insert(gr, e) ==
    LET key == <<CellOf(e.x), CellOf(e.y)>>
        g1 == [k \in DOMAIN gr \cup {key} |-> IF k \in DOMAIN gr THEN gr[k] ELSE <<>>]
    IN [g1 EXCEPT ![key] = Append(@, e.id)]

RECURSIVE InsertAll(_, _, _)
\* for dino in self.game.dinosaurs: self.spatial_grid.insert(dino)
InsertAll(gr, q, n) ==
    IF n > Len(q) THEN gr ELSE InsertAll(Insert(gr, q[n]), q, n + 1)

RECURSIVE QueryCells(_, _, _, _, _, _)
\* the loops of query_range over cy in cy..y1 and cx in cx..x1 (rows start at x0)
QueryCells(gr, cx, cy, x0, x1, y1) ==
    IF cy > y1 THEN <<>>
    ELSE IF cx > x1 THEN QueryCells(gr, x0, cy + 1, x0, x1, y1)
    ELSE (IF <<cx, cy>> \in DOMAIN gr THEN gr[<<cx, cy>>] ELSE <<>>)
         \o QueryCells(gr, cx + 1, cy, x0, x1, y1)

\* SpatialGrid.query_range(start_x, start_y, end_x, end_y), b in whole tiles
query_range(gr, b) ==
    QueryCells(gr, CellOfTile(b[1]), CellOfTile(b[2]), CellOfTile(b[1]),
               CellOfTile(b[3]), CellOfTile(b[4]))

\* the rectangle that covers the whole map
WholeMap == <<0, 0, MAP_WIDTH, MAP_HEIGHT>>

\* rectangles asked for: the whole map, its left part, its right part, the
\* right lower part
Rectangles == {WholeMap, <<0, 0, 9, MAP_HEIGHT>>, <<10, 0, MAP_WIDTH, MAP_HEIGHT>>,
               <<10, 10, MAP_WIDTH, MAP_HEIGHT>>}

GridObserve(op) ==
    /\ grid_op' = op
    /\ grid_query' = <<>>
    /\ grid_result' = <<>>

\* SpatialGrid.clear
GridClear ==
    /\ grid' = <<>>
    /\ grid_inserted' = <<>>
    /\ GridObserve("clear")
    /\ UNCHANGED <<in_session, sessions>>
    /\ UNCHANGED <<gameVars, sceneVars, fxVars, smVars, stackVars, collideVars, busVars>>

\* SpatialGrid.insert(entity) of an entity not inserted since the last clear
GridInsert(e) ==
    /\ Len(grid_inserted) < MaxEntities
    /\ \A n \in 1..Len(grid_inserted) : grid_inserted[n].id # e.id
    /\ grid' = Insert(grid, e)
    /\ grid_inserted' = Append(grid_inserted, e)
    /\ GridObserve("insert")
    /\ UNCHANGED <<in_session, sessions>>
    /\ UNCHANGED <<gameVars, sceneVars, fxVars, smVars, stackVars, collideVars, busVars>>

\* SpatialGrid.query_range
GridQueryRange(b) ==
    /\ grid_result' = query_range(grid, b)
    /\ grid_query' = b
    /\ grid_op' = "query_range"
    /\ UNCHANGED <<grid, grid_inserted, in_session, sessions>>
    /\ UNCHANGED <<gameVars, sceneVars, fxVars, smVars, stackVars, collideVars, busVars>>

-----------------------------------------------------------------------------
(* The world of a session and check_collisions (src/collision_manager.py) *)

\* int(v) of a coordinate: truncation toward zero
IntOf(v) == IF v >= 0 THEN v \div PosScale ELSE -((-v) \div PosScale)

\* positions used: two inside tile (0,0), one in tile (1,0), one in tile (0,1)
Positions == {<<0, 0>>, <<1, 1>>, <<2, 1>>, <<1, 2>>}

\* Config values (config.py): damage per hit and the hp of a new player
LAVA_DAMAGE == 10
SPIKE_DAMAGE == 5
DINOSAUR_ATTACK_DAMAGE == 20
PLAYER_MAX_HP == 100

\* the tile id check_collisions takes for spikes
SpikeId == 5

\* Game.game_map[y][x]: tile (0,0) is a spike tile
game_map == [y \in 0..1 |-> [x \in 0..1 |-> IF x = 0 /\ y = 0 THEN SpikeId ELSE 1]]

ItemTypes == {"potion", "repellent"}

\* Player(cx, cy)
NewPlayer(pos) ==
    [x |-> pos[1], y |-> pos[2], hp |-> PLAYER_MAX_HP, repellent_active |-> FALSE,
     inventory |-> [t \in ItemTypes |-> 0], score |-> 0, last_item_picked |-> "None"]

Dinosaur(pos, aggressive) ==
    [x |-> pos[1], y |-> pos[2], aggressive |-> aggressive, just_attacked |-> FALSE]

Item(id, pos, type) == [id |-> id, x |-> pos[1], y |-> pos[2], type |-> type]

\* what spawn_dinosaurs and spawn_items may have produced
DinosaurSpawns ==
    {<<Dinosaur(p, TRUE), Dinosaur(q, a)>> : p \in {<<1, 1>>}, q \in {<<1, 1>>, <<2, 1>>},
                                            a \in BOOLEAN}
ItemSpawns ==
    {<<Item(1, <<1, 1>>, "potion"), Item(2, p, t)>> : p \in {<<0, 0>>, <<1, 2>>},
                                                      t \in ItemTypes}

\* lava fields spawn_lava may produce
LavaSpawns == {{}, {<<0, 0>>}, {<<1, 0>>}}

\* the part of the Game check_collisions works on, with the events it emits
GameRec == [player |-> player, dinosaurs |-> dinosaurs, items |-> items, events |-> <<>>]

SameTile(a, b) == IntOf(a.x) = IntOf(b.x) /\ IntOf(a.y) = IntOf(b.y)

\* event_bus.emit(type, ...)
Emit(g, ev) == [g EXCEPT !.events = Append(@, ev)]

\* player.hp -= amount, then the player_damaged event
Damage(g, amount, source) ==
    Emit([g EXCEPT !.player.hp = @ - amount], <<"player_damaged", amount, source>>)

CheckLava(g) ==
    IF <<IntOf(g.player.x), IntOf(g.player.y)>> \in lava_fields
    THEN Damage(g, LAVA_DAMAGE, "lava")
    ELSE g

\* mutant: the spike check is an elif of the lava check
CheckSpikesElif(g) ==
    IF g.events = <<>> /\ spikes_enabled
       /\ game_map[IntOf(g.player.y)][IntOf(g.player.x)] = SpikeId
    THEN Damage(g, SPIKE_DAMAGE, "spikes")
    ELSE g

CheckSpikes(g) ==
    IF spikes_enabled /\ game_map[IntOf(g.player.y)][IntOf(g.player.x)] = SpikeId
    THEN Damage(g, SPIKE_DAMAGE, "spikes")
    ELSE g

\* mutant: the attack ignores the repellent
CheckDinosaurNoRepellent(g, i) ==
    IF SameTile(g.dinosaurs[i], g.player) /\ g.dinosaurs[i].aggressive
    THEN LET g1 == [g EXCEPT !.player.hp = @ - DINOSAUR_ATTACK_DAMAGE,
                             !.dinosaurs[i].just_attacked = TRUE]
         IN Emit(g1, <<"player_damaged", DINOSAUR_ATTACK_DAMAGE, "dinosaur">>)
    ELSE g

\* the body of "for dino in game.dinosaurs" for the dinosaur at index i
CheckDinosaur(g, i) ==
    IF SameTile(g.dinosaurs[i], g.player)
       /\ g.dinosaurs[i].aggressive /\ ~g.player.repellent_active
    THEN LET g1 == [g EXCEPT !.player.hp = @ - DINOSAUR_ATTACK_DAMAGE,
                             !.dinosaurs[i].just_attacked = TRUE]
         IN Emit(g1, <<"player_damaged", DINOSAUR_ATTACK_DAMAGE, "dinosaur">>)
    ELSE g

RECURSIVE CheckDinosaurs(_, _)
CheckDinosaurs(g, i) ==
    IF i > Len(g.dinosaurs) THEN g ELSE CheckDinosaurs(CheckDinosaur(g, i), i + 1)

\* list.remove(it): drops the first element equal to it
RECURSIVE ListRemove(_, _)
ListRemove(q, it) ==
    IF q = <<>> THEN q
    ELSE IF Head(q) = it THEN Tail(q)
    ELSE <<Head(q)>> \o ListRemove(Tail(q), it)

\* the body of "for it in game.items[:]" for one item of the copy
CheckItem(g, it) ==
    IF SameTile(it, g.player)
    THEN LET g1 == [g EXCEPT !.player.inventory[it.type] = @ + 1,
                             !.player.last_item_picked = it.type,
                             !.items = ListRemove(@, it),
                             !.player.score = @ + 10]
         IN Emit(g1, <<"item_picked_up", it.type, it.x, it.y>>)
    ELSE g

RECURSIVE CheckItemsLive(_, _, _)
\* mutant: the loop runs over game.items itself, not over a copy
CheckItemsLive(g, copy, k) ==
    IF k > Len(g.items) THEN g ELSE CheckItemsLive(CheckItem(g, g.items[k]), copy, k + 1)

RECURSIVE CheckItems(_, _, _)
CheckItems(g, copy, k) ==
    IF k > Len(copy) THEN g ELSE CheckItems(CheckItem(g, copy[k]), copy, k + 1)

\* mutant: items are picked up before the hazards are applied
check_collisions_items_first(g) ==
    LET g1 == CheckItems(g, g.items, 1)
    IN CheckDinosaurs(CheckSpikes(CheckLava(g1)), 1)

check_collisions(g) ==
    LET g3 == CheckDinosaurs(CheckSpikes(CheckLava(g)), 1)
    IN CheckItems(g3, g3.items, 1)

\* no session: the world is not in use
WorldIdle ==
    /\ player = NewPlayer(<<0, 0>>)
    /\ dinosaurs = <<>>
    /\ items = <<>>
    /\ lava_fields = {}
    /\ spikes_enabled = FALSE
    /\ col_op = "idle"
    /\ col_before = <<>>
    /\ col_events = <<>>
    /\ col_ticks = 0
    /\ lava_run = 0
    /\ run_hp0 = 0

\* Game.reset_game: a new player, the spawned dinosaurs and items, no lava
WorldInit ==
    /\ player \in {NewPlayer(p) : p \in Positions}
    /\ dinosaurs \in DinosaurSpawns
    /\ items \in ItemSpawns
    /\ lava_fields = {}
    /\ spikes_enabled \in BOOLEAN
    /\ col_op = "reset"
    /\ col_before = <<>>
    /\ col_events = <<>>
    /\ col_ticks = 0
    /\ lava_run = 0
    /\ run_hp0 = 0

\* the session goes on: PlayingScene.update runs while the player has hp left
Playing == player.hp > 0

Observe(op) ==
    /\ col_op' = op
    /\ col_before' = <<>>
    /\ col_events' = <<>>
    /\ lava_run' = 0
    /\ run_hp0' = 0
    /\ UNCHANGED col_ticks

\* PlayingScene.update: player.move(dx, dy, game_map)
MovePlayer(pos) ==
    /\ Playing
    /\ pos # <<player.x, player.y>>
    /\ player' = [player EXCEPT !.x = pos[1], !.y = pos[2]]
    /\ Observe("move")
    /\ UNCHANGED <<dinosaurs, items, lava_fields, spikes_enabled>>
    /\ UNCHANGED <<gameVars, sceneVars, fxVars, smVars, stackVars, busVars, gridVars>>

\* the repellent effect starts (trigger_repellent) or runs out
SetRepellent ==
    /\ Playing
    /\ player' = [player EXCEPT !.repellent_active = ~@]
    /\ Observe("repellent")
    /\ UNCHANGED <<dinosaurs, items, lava_fields, spikes_enabled>>
    /\ UNCHANGED <<gameVars, sceneVars, fxVars, smVars, stackVars, busVars, gridVars>>

\* PlayingScene.update: lava_fields = set(spawn_lava(game))
SpawnLava(fields) ==
    /\ Playing
    /\ fields # lava_fields
    /\ lava_fields' = fields
    /\ Observe("lava")
    /\ UNCHANGED <<player, dinosaurs, items, spikes_enabled>>
    /\ UNCHANGED <<gameVars, sceneVars, fxVars, smVars, stackVars, busVars, gridVars>>

\* PlayingScene.update: check_collisions(game)
CollisionTick ==
    /\ Playing
    /\ col_ticks < MaxTicks
    /\ \E g \in {check_collisions(GameRec)} :
          /\ player' = g.player
          /\ dinosaurs' = g.dinosaurs
          /\ items' = g.items
          /\ col_events' = g.events
          /\ IF g.events = <<<<"player_damaged", LAVA_DAMAGE, "lava">>>>
             THEN /\ lava_run' = lava_run + 1
                  /\ run_hp0' = IF lava_run = 0 THEN player.hp ELSE run_hp0
             ELSE /\ lava_run' = 0
                  /\ run_hp0' = 0
    /\ col_before' = [player |-> player, dinosaurs |-> dinosaurs, items |-> items]
    /\ col_op' = "check"
    /\ col_ticks' = col_ticks + 1
    /\ UNCHANGED <<lava_fields, spikes_enabled>>
    /\ UNCHANGED <<gameVars, sceneVars, fxVars, smVars, stackVars, busVars, gridVars>>

-----------------------------------------------------------------------------
(* Timers of a game session (src/scenes/playing_scene.py, src/game.py) *)

\* Config values (config.py), in seconds and cycles
LAVA_INTERVAL == 3
CYCLE_LENGTH == 2
BOAT_ARRIVAL_CYCLES == 2

\* PlayingScene.lava_warning_time
lava_warning_time == 2

\* the keys a scene's handle_event answers with a scene change
SessionKeys == {"K_RETURN", "K_h", "K_ESCAPE"}

\* Game.__init__ and PlayingScene.__init__
SessionIdle ==
    /\ clock = 1
    /\ start_time = 0
    /\ last_lava_time = 0
    /\ boat_active = FALSE
    /\ showing_lava_warning = FALSE
    /\ ses_op = "init"
    /\ ses_before = <<>>
    /\ ses_spawned = FALSE
    /\ ses_generated = {}
    /\ boat_calls = 0
    /\ boat_due_seen = FALSE
    /\ warn_calls = 0

\* time_until_lava = Config.LAVA_INTERVAL - (now - self.game.last_lava_time)
TimeUntilLava(now, last) == LAVA_INTERVAL - (now - last)

\* if time_until_lava <= 0
LavaDue(now, last) == TimeUntilLava(now, last) <= 0

\* mutant: the new tiles are added to the old field
SpawnAdditive(old, generated) == old \cup generated

\* self.game.lava_fields = set(lava_list)
SpawnReplace(old, generated) == generated

\* mutant: the boat is placed whenever it is due
BoatArrivesAgain(current_time, active) ==
    (current_time \div CYCLE_LENGTH) >= BOAT_ARRIVAL_CYCLES

\* (cycles_passed >= Config.BOAT_ARRIVAL_CYCLES) and not self.game.boat_active
BoatArrives(current_time, active) ==
    (current_time \div CYCLE_LENGTH) >= BOAT_ARRIVAL_CYCLES /\ ~active

\* the timers as they are when a handler begins
SessionObserve(op) ==
    /\ ses_op' = op
    /\ ses_before' = [lava_fields |-> lava_fields, last_lava_time |-> last_lava_time,
                      boat_active |-> boat_active, start_time |-> start_time,
                      boat_calls |-> boat_calls]

\* time passes between two handlers
ClockAdvance(d) ==
    /\ clock + d <= MaxClock
    /\ clock' = clock + d
    /\ SessionObserve("clock")
    /\ ses_spawned' = FALSE
    /\ ses_generated' = {}
    /\ UNCHANGED <<start_time, last_lava_time, boat_active, showing_lava_warning,
                   boat_calls, boat_due_seen, warn_calls>>
    /\ UNCHANGED <<gameVars, sceneVars, smVars, stackVars, worldVars, fxButSession>>

\* current_scene.handle_event(event) for a key press: IntroScene calls
\* reset_game() before change_scene(PLAYING); PlayingScene.on_enter sets
\* start_time
SessionHandleEvent(ev) ==
    LET targets == HandleEventTargets(current_scene, ev)
        g == ChangeSceneSeq(SceneRec, targets)
        resets == current_scene = "INTRO"
        enters == g.current = "PLAYING"
    IN /\ targets # <<>>
       /\ SetScene(g)
       /\ SessionObserve(IF resets THEN "reset_game" ELSE "handle_event")
       /\ lava_fields' = IF resets THEN {} ELSE lava_fields
       /\ last_lava_time' = IF resets THEN clock ELSE last_lava_time
       /\ boat_active' = IF resets THEN FALSE ELSE boat_active
       /\ boat_calls' = IF resets THEN 0 ELSE boat_calls
       /\ boat_due_seen' = IF resets THEN FALSE ELSE boat_due_seen
       /\ warn_calls' = IF resets THEN 0 ELSE warn_calls
       /\ start_time' = IF enters THEN clock ELSE start_time
       /\ ses_spawned' = FALSE
       /\ ses_generated' = {}
       /\ UNCHANGED <<clock, showing_lava_warning>>
       /\ UNCHANGED <<player, dinosaurs, items, spikes_enabled, col_op, col_before,
                      col_events, col_ticks, lava_run, run_hp0>>
       /\ UNCHANGED <<gameVars, smVars, stackVars, busVars, gridVars, fxButSession>>

\* PlayingScene.update(dt): the lava warning and eruption, the boat arrival,
\* the win and the lose condition. generated is what spawn_lava returns,
\* on_boat says that the player stands on the boat's tile, dead that
\* player.hp <= 0 after the collisions
SessionUpdate(generated, on_boat, dead) ==
    LET now == clock
        current_time == now - start_time
        time_until_lava == TimeUntilLava(now, last_lava_time)
        warns == 0 < time_until_lava /\ time_until_lava <= lava_warning_time
                    /\ ~showing_lava_warning
        due == LavaDue(now, last_lava_time)
        arrives == BoatArrives(current_time, boat_active)
        active == boat_active \/ arrives
        g == ChangeSceneSeq(SceneRec, UpdateTargets(current_scene, active /\ on_boat, dead))
    IN /\ current_scene = "PLAYING"
       /\ SessionObserve("update")
       /\ showing_lava_warning' = IF due THEN FALSE ELSE (showing_lava_warning \/ warns)
       /\ lava_fields' = IF due THEN SpawnReplace(lava_fields, generated) ELSE lava_fields
       /\ last_lava_time' = IF due THEN now ELSE last_lava_time
       /\ warn_calls' = IF due THEN 0 ELSE IF warns THEN warn_calls + 1 ELSE warn_calls
       /\ ses_spawned' = due
       /\ ses_generated' = IF due THEN generated ELSE {}
       /\ boat_active' = active
       /\ boat_calls' = IF arrives THEN boat_calls + 1 ELSE boat_calls
       /\ boat_due_seen' = (boat_due_seen \/ (current_time \div CYCLE_LENGTH) >= BOAT_ARRIVAL_CYCLES)
       /\ SetScene(g)
       /\ UNCHANGED <<clock, start_time>>
       /\ UNCHANGED <<player, dinosaurs, items, spikes_enabled, col_op, col_before,
                      col_events, col_ticks, lava_run, run_hp0>>
       /\ UNCHANGED <<gameVars, smVars, stackVars, busVars, gridVars, fxButSession>>

-----------------------------------------------------------------------------
(* A DeltaSmoother called with any frame times (src/engine/delta_smoother.py) *)

\* DeltaSmoother(sample_size): small windows, and the window of Game
SampleSizes == {1, 2, 3, SampleSize}

\* raw frame times in ms: negative, zero, inside the clamp, at and above its
\* upper end; the window of 10 is filled with the two extremes
RawDts(size) == IF size = SampleSize THEN {0, 250} ELSE {-5, 0, 17, 100, 250}

\* self.smoothed_dt = 1 / 60.0
InitialSmoothedDt == FixedDt

\* DeltaSmoother.__init__(sample_size)
SmootherInit ==
    /\ ds_size \in SampleSizes
    /\ ds_samples = <<>>
    /\ ds_smoothed = InitialSmoothedDt
    /\ ds_op = "init"
    /\ ds_raw = <<>>

\* the smoother of the other specifications is not called
SmootherIdle ==
    /\ ds_size = SampleSize
    /\ ds_samples = <<>>
    /\ ds_smoothed = InitialSmoothedDt
    /\ ds_op = "init"
    /\ ds_raw = <<>>

\* DeltaSmoother.smooth(dt)
Smooth(dt) ==
    /\ Len(ds_raw) < ds_size + MaxExtra
    /\ LET q == DequeAppendMax(ds_samples, ClampDt(dt), ds_size)
       IN /\ ds_samples' = q
          /\ ds_smoothed' = IF Len(q) > 0 THEN SmoothedDt(q) ELSE ds_smoothed
    /\ ds_raw' = Append(ds_raw, dt)
    /\ ds_op' = "smooth"
    /\ UNCHANGED ds_size
    /\ UNCHANGED <<gameVars, sceneVars, smVars, stackVars, worldVars, fxButSmoother>>

\* DeltaSmoother.reset()
SmootherReset ==
    /\ ds_op = "smooth"
    /\ ds_samples' = <<>>
    /\ ds_smoothed' = InitialSmoothedDt
    /\ ds_raw' = <<>>
    /\ ds_op' = "reset"
    /\ UNCHANGED ds_size
    /\ UNCHANGED <<gameVars, sceneVars, smVars, stackVars, worldVars, fxButSmoother>>

-----------------------------------------------------------------------------
(* Camera (src/engine/camera.py) *)

\* Config.TILE_SIZE (config.py), in pixels
TILE_SIZE == 4

\* Camera(width, height): the screen size in pixels
CamWidth == 8
CamHeight == 8

\* "no bounds": self.bounds_rect = None
NoRect == <<>>

\* Camera.__init__(width, height)
NewCamera(width, height) ==
    [width |-> width, height |-> height,
     x |-> R(0), y |-> R(0), target_x |-> R(0), target_y |-> R(0),
     smoothness |-> <<11, 50>>,
     shake_intensity |-> 0, shake_duration |-> 0, shake_timer |-> 0,
     shake_offset_x |-> R(0), shake_offset_y |-> R(0), shake_falloff |-> "linear",
     zoom |-> R(1), target_zoom |-> R(1), zoom_speed |-> <<1, 10>>,
     bounds_rect |-> NoRect,
     dead_zone_width |-> 0, dead_zone_height |-> 0]

\* mutant: a shake laid on top of the one in progress
ShakeStacking(c, intensity, duration, falloff) ==
    [c EXCEPT !.shake_intensity = IF c.shake_timer > 0 /\ @ > intensity THEN @ ELSE intensity,
              !.shake_duration = duration,
              !.shake_timer = IF @ > 0 THEN @ + duration ELSE duration,
              !.shake_falloff = falloff]

\* Camera.shake(intensity, duration, falloff); times in ms
Shake(c, intensity, duration, falloff) ==
    [c EXCEPT !.shake_intensity = intensity,
              !.shake_duration = duration,
              !.shake_timer = duration,
              !.shake_falloff = falloff]

\* Camera.set_zoom(zoom)
SetZoom(c, zoom) == [c EXCEPT !.target_zoom = RMax(<<1, 10>>, RMin(R(5), zoom))]

\* Camera.set_bounds(rect); rect is <<x, y, width, height>>
SetBounds(c, rect) == [c EXCEPT !.bounds_rect = rect]

\* Camera.set_dead_zone(width, height)
SetDeadZone(c, width, height) ==
    [c EXCEPT !.dead_zone_width = width, !.dead_zone_height = height]

\* Camera.set_target(x, y) with the default velocity 0: the look-ahead term
\* velocity * look_ahead_distance is 0
SetTarget(c, x, y) == [c EXCEPT !.target_x = x, !.target_y = y]

\* pygame.Rect.right and .bottom
RectRight(rect) == rect[1] + rect[3]
RectBottom(rect) == rect[2] + rect[4]

\* Camera.update: "Update zoom"
UpdateZoom(c) ==
    IF RLt(<<1, 100>>, RAbs(RSub(c.zoom, c.target_zoom)))
    THEN [c EXCEPT !.zoom = RAdd(@, RMul(RSub(c.target_zoom, c.zoom), c.zoom_speed))]
    ELSE c

\* target_cam_x, target_cam_y before the dead zone
TargetCam(c) ==
    <<RSub(RMul(c.target_x, R(TILE_SIZE)), R(c.width \div 2)),
      RSub(RMul(c.target_y, R(TILE_SIZE)), R(c.height \div 2))>>

\* Camera.update: "Apply dead zone"; the target camera position that results
DeadZone(c) ==
    LET t == TargetCam(c)
    IN IF c.dead_zone_width > 0 \/ c.dead_zone_height > 0
       THEN LET center_x == RAdd(c.x, R(c.width \div 2))
                center_y == RAdd(c.y, R(c.height \div 2))
                target_center_x == RAdd(t[1], R(c.width \div 2))
                target_center_y == RAdd(t[2], R(c.height \div 2))
                dx == RSub(target_center_x, center_x)
                dy == RSub(target_center_y, center_y)
            IN <<IF RLt(RAbs(dx), R(c.dead_zone_width \div 2)) THEN c.x ELSE t[1],
                 IF RLt(RAbs(dy), R(c.dead_zone_height \div 2)) THEN c.y ELSE t[2]>>
       ELSE t

\* mutant: the camera jumps past its target
FollowOvershoot(c, t) ==
    [c EXCEPT !.x = RAdd(@, RMul(RSub(t[1], c.x), RAdd(R(1), c.smoothness))),
              !.y = RAdd(@, RMul(RSub(t[2], c.y), RAdd(R(1), c.smoothness)))]

\* Camera.update: "Smooth interpolation towards target"
Follow(c, t) ==
    [c EXCEPT !.x = RAdd(@, RMul(RSub(t[1], c.x), c.smoothness)),
              !.y = RAdd(@, RMul(RSub(t[2], c.y), c.smoothness))]

\* Camera.update: "Apply bounds"
ApplyBounds(c) ==
    IF c.bounds_rect # NoRect
    THEN LET view_width == RDiv(R(c.width), c.zoom)
             view_height == RDiv(R(c.height), c.zoom)
             b == c.bounds_rect
         IN [c EXCEPT !.x = RMax(R(b[1]), RMin(@, RSub(R(RectRight(b)), view_width))),
                      !.y = RMax(R(b[2]), RMin(@, RSub(R(RectBottom(b)), view_height)))]
    ELSE c

\* shake_amount for the falloff, from the timer after it was decreased
ShakeAmount(c, timer) ==
    LET ratio == RNorm(timer, c.shake_duration)
    IN CASE c.shake_falloff = "exponential" -> RMul(R(c.shake_intensity), RMul(ratio, ratio))
         [] c.shake_falloff = "linear"      -> RMul(R(c.shake_intensity), ratio)
         [] OTHER                           -> R(c.shake_intensity)

\* Camera.update: "Update screen shake"; dir is <<cos(angle), sin(angle)>>
\* of the random angle
UpdateShake(c, dt, dir) ==
    IF c.shake_timer > 0
    THEN LET timer == c.shake_timer - dt
             shake_amount == ShakeAmount(c, timer)
         IN [c EXCEPT !.shake_timer = timer,
                      !.shake_offset_x = RMul(dir[1], shake_amount),
                      !.shake_offset_y = RMul(dir[2], shake_amount)]
    ELSE [c EXCEPT !.shake_offset_x = R(0), !.shake_offset_y = R(0)]

\* Camera.update(dt)
Update(c, dt, dir) ==
    LET c1 == UpdateZoom(c)
        c2 == Follow(c1, DeadZone(c1))
        c3 == ApplyBounds(c2)
    IN UpdateShake(c3, dt, dir)

\* Camera.is_shaking
is_shaking(c) == c.shake_timer > 0

\* mutant: the pixel is rounded up
ApplyCeil(c, x, y) ==
    LET screen_x == RAdd(RMul(RSub(RMul(x, R(TILE_SIZE)), c.x), c.zoom), c.shake_offset_x)
        screen_y == RAdd(RMul(RSub(RMul(y, R(TILE_SIZE)), c.y), c.zoom), c.shake_offset_y)
    IN <<RInt(screen_x) + 1, RInt(screen_y) + 1>>

\* Camera.apply(x, y) = Camera.world_to_screen(wx, wy)
Apply(c, x, y) ==
    LET screen_x == RAdd(RMul(RSub(RMul(x, R(TILE_SIZE)), c.x), c.zoom), c.shake_offset_x)
        screen_y == RAdd(RMul(RSub(RMul(y, R(TILE_SIZE)), c.y), c.zoom), c.shake_offset_y)
    IN <<RInt(screen_x), RInt(screen_y)>>

\* Camera.screen_to_world(sx, sy)
ScreenToWorld(c, sx, sy) ==
    <<RDiv(RAdd(RDiv(RSub(R(sx), c.shake_offset_x), c.zoom), c.x), R(TILE_SIZE)),
      RDiv(RAdd(RDiv(RSub(R(sy), c.shake_offset_y), c.zoom), c.y), R(TILE_SIZE))>>

\* the camera as PlayingScene constructs it is not touched
CameraIdle ==
    /\ camera = NewCamera(CamWidth, CamHeight)
    /\ cam_op = "init"
    /\ cam_args = <<>>
    /\ cam_before = <<>>
    /\ cam_updates = 0
    /\ cam_screen = <<>>
    /\ cam_world = <<>>

\* values of Camera.smoothness in (0, 1): 1/5 for the constructor's 0.22
\* (the powers of 1/5 stay small), and 1/2
SmoothnessValues == {<<1, 5>>, <<1, 2>>}

\* a Camera whose owner has chosen its smoothness
CameraInit ==
    /\ camera \in {[NewCamera(CamWidth, CamHeight) EXCEPT !.smoothness = s] :
                      s \in SmoothnessValues}
    /\ cam_op = "init"
    /\ cam_args = <<>>
    /\ cam_before = <<>>
    /\ cam_updates = 0
    /\ cam_screen = <<>>
    /\ cam_world = <<>>

\* a call of a Camera method that returns nothing
CamCall(op, args, c) ==
    /\ camera' = c
    /\ cam_op' = op
    /\ cam_args' = args
    /\ cam_before' = camera
    /\ cam_screen' = <<>>
    /\ cam_world' = <<>>
    /\ UNCHANGED <<gameVars, sceneVars, smVars, stackVars, worldVars, fxButCamera>>

\* shakes asked for: intensity in pixels, duration in ms, falloff
Shakes == {<<6, 50, "exponential">>, <<3, 20, "linear">>, <<3, 20, "none">>}

CamShake(sh) ==
    /\ CamCall("shake", sh, Shake(camera, sh[1], sh[2], sh[3]))
    /\ UNCHANGED cam_updates

\* zooms asked for: below the lower limit, 1, 2
Zooms == {<<1, 20>>, R(1), R(2)}

\* set_zoom is called once, before the first update
CamSetZoom(zoom) ==
    /\ camera.target_zoom = R(1)
    /\ cam_updates = 0
    /\ SetZoom(camera, zoom).target_zoom # camera.target_zoom
    /\ CamCall("set_zoom", <<zoom>>, SetZoom(camera, zoom))
    /\ UNCHANGED cam_updates

\* bounds given: the size of the screen, twice the size of the screen
BoundsRects == {<<0, 0, 8, 8>>, <<0, 0, 16, 16>>}

\* set_bounds is called once, before the first update, as PlayingScene does
CamSetBounds(rect) ==
    /\ camera.bounds_rect = NoRect
    /\ cam_updates = 0
    /\ CamCall("set_bounds", <<rect>>, SetBounds(camera, rect))
    /\ UNCHANGED cam_updates

\* set_dead_zone is called once, before the first update
CamSetDeadZone(width, height) ==
    /\ camera.dead_zone_width = 0
    /\ cam_updates = 0
    /\ CamCall("set_dead_zone", <<width, height>>, SetDeadZone(camera, width, height))
    /\ UNCHANGED cam_updates

\* targets followed, in tiles
Targets == {<<R(0), R(1)>>, <<R(3), R(1)>>, <<<<5, 2>>, R(3)>>}

CamSetTarget(t) ==
    /\ <<camera.target_x, camera.target_y>> # t
    /\ CamCall("set_target", t, SetTarget(camera, t[1], t[2]))
    /\ UNCHANGED cam_updates

\* frame times in ms
CamDts == {10, 30}

\* <<cos, sin>> of the random angle: 270 degrees, and the angle of the
\* 3-4-5 triangle
Directions == {<<R(0), R(-1)>>, <<<<3, 5>>, <<4, 5>>>>}

CamUpdate(dt, dir) ==
    /\ cam_updates < MaxCamUpdates
    /\ CamCall("update", <<dt, dir>>, Update(camera, dt, dir))
    /\ cam_updates' = cam_updates + 1

\* world points converted, in tiles
WorldPoints == {<<R(0), R(0)>>, <<<<5, 2>>, R(1)>>, <<<<13, 8>>, <<1, 3>>>>}

\* world_to_screen(wx, wy), then screen_to_world of the pixel returned, for
\* a camera that is not zoomed
CamConvert(w) ==
    /\ cam_op # "convert"
    /\ camera.zoom = R(1)
    /\ cam_screen' = Apply(camera, w[1], w[2])
    /\ cam_world' = ScreenToWorld(camera, cam_screen'[1], cam_screen'[2])
    /\ cam_op' = "convert"
    /\ cam_args' = w
    /\ cam_before' = camera
    /\ UNCHANGED <<camera, cam_updates>>
    /\ UNCHANGED <<gameVars, sceneVars, smVars, stackVars, worldVars, fxButCamera>>

-----------------------------------------------------------------------------
(* ParticleSystem (src/engine/particle_system.py) *)
(* Times are in ms, speeds in 1/1000 pixel per second, positions in        *)
(* 1/1000000 pixel.                                                        *)

\* Particle.__init__(x, y, vx, vy, lifetime, color, size, gravity); id tells
\* the objects apart
NewParticle(id, x, y, vx, vy, lifetime, gravity) ==
    [id |-> id, x |-> x, y |-> y, vx |-> vx, vy |-> vy, lifetime |-> lifetime,
     age |-> 0, gravity |-> gravity, alpha |-> 255]

\* int(v) of the quotient n / d, d > 0: truncation towards zero
IntDiv(n, d) == IF n >= 0 THEN n \div d ELSE -((-n) \div d)

\* "life_ratio = 1.0 - (self.age / self.lifetime); int(255 * life_ratio)"
Alpha(age, lifetime) == IntDiv(255 * (lifetime - age), lifetime)

\* Particle.update(dt): the particle afterwards
ParticleUpdate(p, dt) ==
    LET age == p.age + dt
    IN [p EXCEPT !.x = @ + p.vx * dt,
                 !.y = @ + p.vy * dt,
                 !.vy = @ + p.gravity * dt,
                 !.age = age,
                 !.alpha = Alpha(age, p.lifetime)]

\* mutant: a particle lives through the update in which its age reaches its
\* lifetime
AliveAtLifetime(p) == p.age <= p.lifetime

\* Particle.update(dt): the value returned
Alive(p) == p.age < p.lifetime

\* the members of the sequence q that are alive, in order
RECURSIVE KeepAlive(_)
KeepAlive(q) ==
    IF q = <<>> THEN <<>>
    ELSE IF Alive(Head(q)) THEN <<Head(q)>> \o KeepAlive(Tail(q))
    ELSE KeepAlive(Tail(q))

\* the ids of the particles of the sequence q
Ids(q) == {q[n].id : n \in 1..Len(q)}

\* ParticleSystem.__init__
ParticlesInit ==
    /\ particles = <<>>
    /\ ps_op = "init"
    /\ ps_dt = 0
    /\ ps_before = <<>>
    /\ ps_updated = <<>>
    /\ ps_created = 0
    /\ ps_removed = {}
    /\ ps_updates = 0

\* the particle system of the PlayingScene is not touched
ParticlesIdle == ParticlesInit

\* what random.uniform draws for one particle: lifetime, vx, vy
ParticleDraws == {<<100, 20000, -30000>>, <<250, -14000, 14000>>}

\* the draws of one emit call: count = 1 or 2
Bursts == {<<a>> : a \in ParticleDraws} \cup {<<a, b>> : a \in ParticleDraws, b \in ParticleDraws}

\* gravity passed to emit
Gravities == {0, 100}

\* ParticleSystem.emit(x, y, count, ..., gravity) at the point (0, 0)
PsEmit(burst, gravity) ==
    /\ ps_created + Len(burst) <= MaxParticles
    /\ particles' = particles \o
          [n \in 1..Len(burst) |->
              NewParticle(ps_created + n, 0, 0, burst[n][2], burst[n][3], burst[n][1],
                          gravity)]
    /\ ps_created' = ps_created + Len(burst)
    /\ ps_op' = "emit"
    /\ ps_before' = particles
    /\ UNCHANGED <<ps_dt, ps_updated, ps_removed, ps_updates>>
    /\ UNCHANGED <<gameVars, sceneVars, smVars, stackVars, worldVars, fxButParticles>>

\* frame times passed to update
ParticleDts == {0, 50, 120}

\* ParticleSystem.update(dt)
PsUpdate(dt) ==
    /\ ps_updates < MaxParticleUpdates
    /\ ps_updated' = [n \in 1..Len(particles) |-> ParticleUpdate(particles[n], dt)]
    /\ particles' = KeepAlive(ps_updated')
    /\ ps_removed' = ps_removed \cup (Ids(particles) \ Ids(particles'))
    /\ ps_op' = "update"
    /\ ps_dt' = dt
    /\ ps_before' = particles
    /\ ps_updates' = ps_updates + 1
    /\ UNCHANGED ps_created
    /\ UNCHANGED <<gameVars, sceneVars, smVars, stackVars, worldVars, fxButParticles>>

\* ParticleSystem.clear
PsClear ==
    /\ particles # <<>>
    /\ particles' = <<>>
    /\ ps_removed' = ps_removed \cup Ids(particles)
    /\ ps_op' = "clear"
    /\ ps_before' = particles
    /\ UNCHANGED <<ps_dt, ps_updated, ps_created, ps_updates>>
    /\ UNCHANGED <<gameVars, sceneVars, smVars, stackVars, worldVars, fxButParticles>>

-----------------------------------------------------------------------------
(* Transition (src/engine/transitions.py) *)
(* Times are in ms.                                                        *)

\* the values of Transition.callback: None, a function of the caller, and
\* the lambda of crossfade that starts fade_from_black(d)
NoCallback == <<"None">>
UserCallback == <<"user">>
FadeInLambda(d) == <<"lambda", d>>

\* Transition.__init__
NewTransition ==
    [active |-> FALSE, alpha |-> 0, duration |-> 500, timer |-> 0, fade_in |-> TRUE,
     callback |-> NoCallback]

\* Transition.fade_to_black(duration, callback)
FadeToBlack(t, duration, callback) ==
    [t EXCEPT !.active = TRUE, !.fade_in = FALSE, !.duration = duration, !.timer = 0,
              !.callback = callback, !.alpha = 0]

\* Transition.fade_from_black(duration, callback)
FadeFromBlack(t, duration, callback) ==
    [t EXCEPT !.active = TRUE, !.fade_in = TRUE, !.duration = duration, !.timer = 0,
              !.callback = callback, !.alpha = 255]

\* Transition.crossfade(duration, callback): fade_to_black with the lambda,
\* then "self.callback = callback"
Crossfade(t, duration, callback) ==
    [FadeToBlack(t, duration \div 2, FadeInLambda(duration \div 2))
         EXCEPT !.callback = callback]

\* Transition.update(dt): <<the transition afterwards, calls of the
\* caller's callback>>
TransitionUpdate(t, dt) ==
    IF ~t.active THEN <<t, 0>>
    ELSE LET timer == t.timer + dt
             reached == Min2(timer, t.duration)
             alpha == IF t.fade_in
                      THEN IntDiv(255 * (t.duration - reached), t.duration)
                      ELSE IntDiv(255 * reached, t.duration)
             t1 == [t EXCEPT !.timer = timer, !.alpha = alpha]
         IN IF timer >= t.duration
            THEN LET t2 == [t1 EXCEPT !.active = FALSE]
                     cb == t2.callback
                     t3 == IF cb[1] = "lambda"
                           THEN FadeFromBlack(t2, cb[2], NoCallback) ELSE t2
                 IN IF cb = NoCallback THEN <<t2, 0>>
                    ELSE <<[t3 EXCEPT !.callback = NoCallback],
                           IF cb = UserCallback THEN 1 ELSE 0>>
            ELSE <<t1, 0>>

\* Transition.render draws the overlay, with self.alpha
RenderDraws(t) == ~(~t.active /\ t.alpha = 0)

\* nothing has been called
NoObservation ==
    [op |-> "init", kind |-> "none", total |-> 0, cb |-> NoCallback, elapsed |-> 0,
     cb_calls |-> 0, updates |-> 0, overlay |-> -1]

\* Transition.__init__
TransitionInit ==
    /\ transition = NewTransition
    /\ tr_obs = NoObservation

\* the transition is not used
TransitionIdle == TransitionInit

\* durations and callbacks passed to the fades
FadeDurations == {100, 200}
FadeCallbacks == {NoCallback, UserCallback}
FadeKinds == {"fade_to_black", "fade_from_black", "crossfade"}

\* fade_to_black, fade_from_black or crossfade is called
TrStart(kind, duration, callback) ==
    /\ tr_obs.updates < MaxTransitionUpdates
    /\ transition' = CASE kind = "fade_to_black" -> FadeToBlack(transition, duration, callback)
                       [] kind = "fade_from_black" -> FadeFromBlack(transition, duration, callback)
                       [] kind = "crossfade" -> Crossfade(transition, duration, callback)
    /\ tr_obs' = [tr_obs EXCEPT !.op = kind, !.kind = kind, !.total = duration,
                                !.cb = callback, !.elapsed = 0, !.cb_calls = 0,
                                !.overlay = -1]
    /\ UNCHANGED <<animation, an_obs>>
    /\ UNCHANGED <<gameVars, sceneVars, smVars, stackVars, worldVars, sessionVars,
                   smootherVars, cameraVars, particleVars>>

\* frame times passed to Transition.update
TransitionDts == {30, 50, 100}

\* Transition.update(dt)
TrUpdate(dt) ==
    /\ tr_obs.updates < MaxTransitionUpdates
    /\ \E r \in {TransitionUpdate(transition, dt)} :
          /\ transition' = r[1]
          /\ tr_obs' = [tr_obs EXCEPT !.op = "update", !.elapsed = @ + dt,
                                      !.cb_calls = @ + r[2], !.updates = @ + 1,
                                      !.overlay = -1]
    /\ UNCHANGED <<animation, an_obs>>
    /\ UNCHANGED <<gameVars, sceneVars, smVars, stackVars, worldVars, sessionVars,
                   smootherVars, cameraVars, particleVars>>

\* Transition.render(): the alpha of the overlay drawn, -1 when none is drawn
TrRender ==
    /\ tr_obs.op # "render"
    /\ tr_obs' = [tr_obs EXCEPT !.op = "render",
                                !.overlay = IF RenderDraws(transition)
                                            THEN transition.alpha ELSE -1]
    /\ UNCHANGED <<transition, animation, an_obs>>
    /\ UNCHANGED <<gameVars, sceneVars, smVars, stackVars, worldVars, sessionVars,
                   smootherVars, cameraVars, particleVars>>

-----------------------------------------------------------------------------
(* Animation (src/engine/animation_controller.py) *)
(* Times are in ms.                                                        *)

\* Animation.__init__(frames, frame_duration, loop, on_complete): nframes is
\* len(frames), on_complete says that a callback was passed
NewAnimation(nframes, frame_duration, loop, on_complete) ==
    [frames |-> nframes, frame_duration |-> frame_duration, loop |-> loop,
     on_complete |-> on_complete, current_frame |-> 0, timer |-> 0, finished |-> FALSE]

\* Animation.reset
AnimationReset(a) == [a EXCEPT !.current_frame = 0, !.timer = 0, !.finished = FALSE]

RECURSIVE AnimationLoop(_, _)
\* "while self.timer >= self.frame_duration": <<the animation afterwards,
\* on_complete calls>>
AnimationLoop(a, calls) ==
    IF a.timer < a.frame_duration THEN <<a, calls>>
    ELSE LET a1 == [a EXCEPT !.timer = @ - a.frame_duration,
                             !.current_frame = @ + 1]
         IN IF a1.current_frame >= a1.frames
            THEN IF a1.loop
                 THEN AnimationLoop([a1 EXCEPT !.current_frame = 0], calls)
                 ELSE AnimationLoop([a1 EXCEPT !.current_frame = a1.frames - 1,
                                               !.finished = TRUE],
                                    IF a1.on_complete THEN calls + 1 ELSE calls)
            ELSE AnimationLoop(a1, calls)

\* Animation.update(dt)
AnimationUpdate(a, dt) ==
    IF a.finished THEN <<a, 0>>
    ELSE AnimationLoop([a EXCEPT !.timer = @ + dt], 0)

\* the animations constructed: 1 to 3 frames of 100 ms
Animations ==
    {NewAnimation(nframes, 100, loop, on_complete) :
        nframes \in 1..3, loop \in BOOLEAN, on_complete \in BOOLEAN}

\* Animation.__init__
AnimationInit ==
    /\ animation \in Animations
    /\ an_obs = [op |-> "init", dt |-> 0, complete_calls |-> 0, updates |-> 0]

\* the animation is not used
AnimationIdle ==
    /\ animation = NewAnimation(1, 100, TRUE, FALSE)
    /\ an_obs = [op |-> "init", dt |-> 0, complete_calls |-> 0, updates |-> 0]

\* frame times passed to Animation.update
AnimationDts == {0, 50, 100, 250}

\* Animation.update(dt)
AnUpdate(dt) ==
    /\ an_obs.updates < MaxAnimationUpdates
    /\ \E r \in {AnimationUpdate(animation, dt)} :
          /\ animation' = r[1]
          /\ an_obs' = [an_obs EXCEPT !.op = "update", !.dt = dt,
                                      !.complete_calls = @ + r[2], !.updates = @ + 1]
    /\ UNCHANGED <<transition, tr_obs>>
    /\ UNCHANGED <<gameVars, sceneVars, smVars, stackVars, worldVars, sessionVars,
                   smootherVars, cameraVars, particleVars>>

\* Animation.reset()
AnReset ==
    /\ an_obs.op = "update"
    /\ animation' = AnimationReset(animation)
    /\ an_obs' = [an_obs EXCEPT !.op = "reset", !.dt = 0, !.complete_calls = 0]
    /\ UNCHANGED <<transition, tr_obs>>
    /\ UNCHANGED <<gameVars, sceneVars, smVars, stackVars, worldVars, sessionVars,
                   smootherVars, cameraVars, particleVars>>

\* the components below are idle in the specifications of the others
FxIdle == SessionIdle /\ SmootherIdle /\ CameraIdle /\ ParticlesIdle /\ TransitionIdle
             /\ AnimationIdle

-----------------------------------------------------------------------------
(* StateMachine (src/engine/state_machine.py) *)

\* names of the State objects used
SMNames == {"idle", "chase", "flee"}

\* StateMachine.__init__(initial_state): initial_state is optional and need
\* not be registered
SMInit ==
    /\ sm_states = {}
    /\ sm_current \in SMNames \cup {"None"}
    /\ sm_entity = "None"
    /\ sm_op = "init"
    /\ sm_req = "None"
    /\ sm_prev = "None"
    /\ sm_calls = <<>>

\* the state machine is not in use
SMIdle ==
    /\ sm_states = {}
    /\ sm_current = "None"
    /\ sm_entity = "None"
    /\ sm_op = "init"
    /\ sm_req = "None"
    /\ sm_prev = "None"
    /\ sm_calls = <<>>

\* StateMachine.change_state(state_name) on the record m
\* [states, current, calls]
ChangeState(m, name) ==
    IF name \notin m.states THEN m
    ELSE LET m1 == IF m.current # "None"
                   THEN [m EXCEPT !.calls = Append(@, <<"exit", m.current>>)]
                   ELSE m
         IN [m1 EXCEPT !.current = name,
                       !.calls = Append(@, <<"enter", name>>)]

SMRec == [states |-> sm_states, current |-> sm_current, calls |-> <<>>]

\* StateMachine.add_state(state)
SMAddState(n) ==
    /\ n \notin sm_states
    /\ sm_states' = sm_states \cup {n}
    /\ sm_op' = "add_state"
    /\ sm_req' = n
    /\ sm_prev' = sm_current
    /\ sm_calls' = <<>>
    /\ UNCHANGED <<sm_current, sm_entity>>
    /\ UNCHANGED <<gameVars, sceneVars, fxVars, stackVars, worldVars>>

\* StateMachine.set_initial_state(state_name, entity)
SMSetInitialState(n) ==
    /\ sm_op' = "set_initial_state"
    /\ sm_req' = n
    /\ sm_prev' = sm_current
    /\ IF n \notin sm_states
       THEN /\ sm_calls' = <<>>
            /\ UNCHANGED <<sm_current, sm_entity>>
       ELSE /\ sm_entity' = "dino"
            /\ sm_current' = n
            /\ sm_calls' = <<<<"enter", n>>>>
    /\ UNCHANGED sm_states
    /\ UNCHANGED <<gameVars, sceneVars, fxVars, stackVars, worldVars>>

\* StateMachine.change_state(state_name)
SMChangeState(n) ==
    /\ LET m == ChangeState(SMRec, n)
       IN /\ sm_current' = m.current
          /\ sm_calls' = m.calls
    /\ sm_op' = "change_state"
    /\ sm_req' = n
    /\ sm_prev' = sm_current
    /\ UNCHANGED <<sm_states, sm_entity>>
    /\ UNCHANGED <<gameVars, sceneVars, fxVars, stackVars, worldVars>>

\* mutant: after a transition the new state is updated in the same call
SMUpdateAgain(ret) ==
    /\ IF sm_current # "None" /\ sm_entity # "None"
       THEN LET m0 == [SMRec EXCEPT !.calls = <<<<"update", sm_current>>>>]
                m == IF ret # "None" /\ ret \in sm_states
                     THEN [ChangeState(m0, ret) EXCEPT !.calls = Append(@, <<"update", ret>>)]
                     ELSE m0
            IN /\ sm_current' = m.current
               /\ sm_calls' = m.calls
               /\ sm_req' = ret
       ELSE /\ sm_calls' = <<>>
            /\ sm_req' = "None"
            /\ UNCHANGED sm_current
    /\ sm_op' = "update"
    /\ sm_prev' = sm_current
    /\ UNCHANGED <<sm_states, sm_entity>>
    /\ UNCHANGED <<gameVars, sceneVars, fxVars, stackVars, worldVars>>

\* StateMachine.update(dt): the current state's update returns ret
SMUpdate(ret) ==
    /\ IF sm_current # "None" /\ sm_entity # "None"
       THEN LET m0 == [SMRec EXCEPT !.calls = <<<<"update", sm_current>>>>]
                m == IF ret # "None" /\ ret \in sm_states
                     THEN ChangeState(m0, ret) ELSE m0
            IN /\ sm_current' = m.current
               /\ sm_calls' = m.calls
               /\ sm_req' = ret
       ELSE /\ sm_calls' = <<>>
            /\ sm_req' = "None"
            /\ UNCHANGED sm_current
    /\ sm_op' = "update"
    /\ sm_prev' = sm_current
    /\ UNCHANGED <<sm_states, sm_entity>>
    /\ UNCHANGED <<gameVars, sceneVars, fxVars, stackVars, worldVars>>

-----------------------------------------------------------------------------
(* StateStack (src/engine/state_stack.py) *)

\* layer instances: playing is blocking and opaque (the defaults), pause is
\* blocking and transparent, hud is non-blocking and transparent
Layers == {"playing", "pause", "hud"}

\* GameStateBase.is_blocking
is_blocking(l) == l \in {"playing", "pause"}

\* GameStateBase.is_transparent
is_transparent(l) == l \in {"pause", "hud"}

\* what a layer callback may ask of the stack
Requests == {<<"pop", "None">>, <<"clear", "None">>}
              \cup {<<"push", l>> : l \in Layers}
              \cup {<<"replace", l>> : l \in Layers}

NoReq == <<"none", "None">>

\* StateStack.__init__
StackInit ==
    /\ states = <<>>
    /\ pending_actions = <<>>
    /\ stack_op = "init"
    /\ states_before = <<>>
    /\ pending_before = <<>>
    /\ stack_calls = <<>>
    /\ stack_asked = <<>>
    /\ applied = <<>>
    /\ paused = {}
    /\ resume_ok = TRUE
    /\ stack_exc = "none"

\* the stack part of the state as a record, at the start of one call
StackRec == [states |-> states, pending |-> pending_actions, log |-> <<>>,
             asked |-> stack_asked, paused |-> paused, resume_ok |-> resume_ok,
             todo |-> <<>>]

\* mutant: push puts the state on the stack at once
PushNow(st, d) == [st EXCEPT !.states = Append(@, d)]

\* StateStack.push(state)
Push(st, d) == [st EXCEPT !.pending = Append(@, <<"push", d>>)]

\* StateStack.pop()
Pop(st) == [st EXCEPT !.pending = Append(@, <<"pop", "None">>)]

\* StateStack.clear()
Clear(st) == [st EXCEPT !.pending = Append(@, <<"clear", "None">>)]

\* StateStack.replace(state)
Replace(st, d) == [st EXCEPT !.pending = Append(@, <<"replace", d>>)]

\* a caller invokes one of the four methods
Request(st, r) ==
    IF r = NoReq THEN st
    ELSE LET st1 == [st EXCEPT !.asked = Append(@, r)]
         IN CASE r[1] = "push"    -> Push(st1, r[2])
              [] r[1] = "pop"     -> Pop(st1)
              [] r[1] = "clear"   -> Clear(st1)
              [] r[1] = "replace" -> Replace(st1, r[2])

RECURSIVE RunLayersAll(_, _, _, _)
\* mutant: the loop has no break at a blocking layer
RunLayersAll(st, i, cb, reqs) ==
    IF i < 1 THEN st
    ELSE LET layer == st.states[i]
             st1 == [st EXCEPT !.log = Append(@, [cb |-> cb, layer |-> layer, at |-> i,
                                                  seen |-> st.states])]
             st2 == IF reqs = <<>> THEN st1 ELSE Request(st1, Head(reqs))
             rest == IF reqs = <<>> THEN reqs ELSE Tail(reqs)
         IN RunLayersAll(st2, i - 1, cb, rest)

RECURSIVE RunLayers(_, _, _, _)
\* for i in range(len(self.states) - 1, -1, -1): call cb on states[i], break
\* at the first blocking layer.  reqs: what the layers reached ask for, in turn.
RunLayers(st, i, cb, reqs) ==
    IF i < 1 THEN st
    ELSE LET layer == st.states[i]
             st1 == [st EXCEPT !.log = Append(@, [cb |-> cb, layer |-> layer, at |-> i,
                                                  seen |-> st.states])]
             st2 == IF reqs = <<>> THEN st1 ELSE Request(st1, Head(reqs))
             rest == IF reqs = <<>> THEN reqs ELSE Tail(reqs)
         IN IF is_blocking(layer) THEN st2 ELSE RunLayers(st2, i - 1, cb, rest)

\* a lifecycle callback of a layer, made while action k is applied; the
\* callback may itself call push/pop/replace/clear (st.todo: what the next
\* lifecycle callbacks ask for)
Lifecycle(st, cb, layer, k) ==
    LET st1 == [st EXCEPT
                  !.log = Append(@, [cb |-> cb, layer |-> layer, at |-> k,
                                     seen |-> st.states]),
                  !.paused = CASE cb = "on_pause" -> @ \cup {layer}
                               [] cb \in {"on_resume", "on_exit"} -> @ \ {layer}
                               [] OTHER -> @,
                  !.resume_ok = @ /\ (cb = "on_resume" => layer \in st.paused)]
    IN IF st1.todo = <<>> THEN st1
       ELSE Request([st1 EXCEPT !.todo = Tail(@)], Head(st1.todo))

Top(q) == q[Len(q)]
Front(q) == SubSeq(q, 1, Len(q) - 1)
InSeq(x, q) == \E i \in 1..Len(q) : q[i] = x

RECURSIVE ExitAll(_, _, _)
\* for state in self.states: state.on_exit()
ExitAll(st, i, k) ==
    IF i > Len(st.states) THEN st
    ELSE ExitAll(Lifecycle(st, "on_exit", st.states[i], k), i + 1, k)

\* mutant: pop resumes the layer below before the popped layer has exited,
\* and push enters the new layer before pausing the old top
ApplyActionSwapped(st, action, data, k) ==
    CASE action = "push" ->
            LET st1 == Lifecycle([st EXCEPT !.states = Append(@, data)], "on_enter", data, k)
            IN IF st.states # <<>>
               THEN Lifecycle(st1, "on_pause", Top(st.states), k) ELSE st1
      [] action = "pop" ->
            IF st.states = <<>> THEN st
            ELSE LET state == Top(st.states)
                     st1 == [st EXCEPT !.states = Front(@)]
                     st2 == IF st1.states # <<>>
                            THEN Lifecycle(st1, "on_resume", Top(st1.states), k) ELSE st1
                 IN Lifecycle(st2, "on_exit", state, k)
      [] action = "clear" ->
            [ExitAll(st, 1, k) EXCEPT !.states = <<>>]
      [] action = "replace" ->
            LET st1 == IF st.states # <<>>
                       THEN Lifecycle([st EXCEPT !.states = Front(@)], "on_exit",
                                      Top(st.states), k)
                       ELSE st
                st2 == [st1 EXCEPT !.states = Append(@, data)]
            IN Lifecycle(st2, "on_enter", data, k)

\* one branch of the loop body of _apply_pending_actions
ApplyAction(st, action, data, k) ==
    CASE action = "push" ->
            LET st1 == IF st.states # <<>>
                       THEN Lifecycle(st, "on_pause", Top(st.states), k) ELSE st
                st2 == [st1 EXCEPT !.states = Append(@, data)]
            IN Lifecycle(st2, "on_enter", data, k)
      [] action = "pop" ->
            IF st.states = <<>> THEN st
            ELSE LET state == Top(st.states)
                     st1 == [st EXCEPT !.states = Front(@)]
                     st2 == Lifecycle(st1, "on_exit", state, k)
                 IN IF st2.states # <<>>
                    THEN Lifecycle(st2, "on_resume", Top(st2.states), k) ELSE st2
      [] action = "clear" ->
            [ExitAll(st, 1, k) EXCEPT !.states = <<>>]
      [] action = "replace" ->
            LET st1 == IF st.states # <<>>
                       THEN Lifecycle([st EXCEPT !.states = Front(@)], "on_exit",
                                      Top(st.states), k)
                       ELSE st
                st2 == [st1 EXCEPT !.states = Append(@, data)]
            IN Lifecycle(st2, "on_enter", data, k)

RECURSIVE ApplyFrom(_, _)
\* for action, data in self.pending_actions: ... (the list may grow while it
\* is iterated); self.pending_actions.clear()
ApplyFrom(st, k) ==
    IF k > Len(st.pending) THEN st
    ELSE ApplyFrom(ApplyAction(st, st.pending[k][1], st.pending[k][2], k), k + 1)

RECURSIVE ApplyUpTo(_, _, _)
\* the actions k .. n of the queue are applied
ApplyUpTo(st, k, n) ==
    IF k > n THEN st
    ELSE ApplyUpTo(ApplyAction(st, st.pending[k][1], st.pending[k][2], k), k + 1, n)

\* mutant: only the actions queued when the pass begins are applied, what a
\* lifecycle callback queues meanwhile is cleared with them
ApplyPendingSnapshot(st) == [ApplyUpTo(st, 1, Len(st.pending)) EXCEPT !.pending = <<>>]

\* StateStack._apply_pending_actions
ApplyPendingActions(st) == [ApplyFrom(st, 1) EXCEPT !.pending = <<>>]

\* StateStack.update(dt): the layer updates, then the pending actions
UpdateStack(st, ureqs, lreqs) ==
    LET st1 == RunLayers(st, Len(st.states), "update", ureqs)
    IN ApplyPendingActions([st1 EXCEPT !.todo = lreqs])

\* first index rendered by StateStack.render (1-based; the loop leaves
\* start_index at the top when every layer is transparent)
RenderStart(q) ==
    LET opaque == {i \in 1..Len(q) : ~is_transparent(q[i])}
    IN IF opaque = {} THEN Len(q)
       ELSE CHOOSE i \in opaque : \A j \in opaque : j <= i

RECURSIVE RenderFrom(_, _)
\* for i in range(start_index, len(self.states)): self.states[i].render(surface)
RenderFrom(st, i) ==
    IF i > Len(st.states) THEN st
    ELSE RenderFrom([st EXCEPT !.log = Append(@, [cb |-> "render", layer |-> st.states[i],
                                                   at |-> i, seen |-> st.states])], i + 1)

ReqSeqs(n) == UNION { [1..k -> Requests] : k \in 0..n }

RECURSIVE Reached(_, _)
\* number of layers reached from index i down by handle_event / update
Reached(q, i) ==
    IF i < 1 THEN 0
    ELSE IF is_blocking(q[i]) THEN 1 ELSE 1 + Reached(q, i - 1)

\* the list a queued action leaves, callbacks aside
StackEffect(q, act) ==
    CASE act[1] = "push"    -> Append(q, act[2])
      [] act[1] = "pop"     -> IF q = <<>> THEN q ELSE Front(q)
      [] act[1] = "clear"   -> <<>>
      [] act[1] = "replace" -> Append(IF q = <<>> THEN q ELSE Front(q), act[2])

RECURSIVE StackEffects(_, _)
StackEffects(q, acts) ==
    IF acts = <<>> THEN q ELSE StackEffects(StackEffect(q, Head(acts)), Tail(acts))

RECURSIVE Distinct(_, _)
\* the layer instances used are distinct: no queued action puts a layer on
\* the stack that is already on it
Distinct(q, acts) ==
    IF acts = <<>> THEN TRUE
    ELSE LET act == Head(acts)
             kept == IF act[1] = "replace" /\ q # <<>> THEN Front(q) ELSE q
         IN /\ act[1] \in {"push", "replace"} => ~InSeq(act[2], kept)
            /\ Distinct(StackEffect(q, act), Tail(acts))

SetStack(st, op) ==
    /\ states' = st.states
    /\ pending_actions' = st.pending
    /\ stack_asked' = st.asked
    /\ paused' = st.paused
    /\ resume_ok' = st.resume_ok
    /\ stack_calls' = st.log
    /\ stack_op' = op
    /\ states_before' = states
    /\ pending_before' = pending_actions
    /\ stack_exc' = "none"

\* push/pop/clear/replace called from outside any layer callback
StackRequest(r) ==
    /\ Len(pending_actions) < MaxPending
    /\ Distinct(states, Append(pending_actions, r))
    /\ \E st \in {Request(StackRec, r)} : SetStack(st, r[1])
    /\ applied' = <<>>
    /\ UNCHANGED <<gameVars, sceneVars, fxVars, smVars, worldVars>>

\* StateStack.handle_event(event); the layers reached may queue actions
StackHandleEvent(reqs) ==
    /\ Len(reqs) <= Reached(states, Len(states))
    /\ Distinct(states, pending_actions \o reqs)
    /\ \E st \in {RunLayers(StackRec, Len(states), "handle_event", reqs)} :
          SetStack(st, "handle_event")
    /\ applied' = <<>>
    /\ UNCHANGED <<gameVars, sceneVars, fxVars, smVars, worldVars>>

\* StateStack.update(dt); ureqs: what the layers updated ask for, lreqs: what
\* the lifecycle callbacks ask for
StackUpdate(ureqs, lreqs) ==
    /\ Len(ureqs) <= Reached(states, Len(states))
    /\ Distinct(states, pending_actions \o ureqs \o lreqs)
    /\ \E st \in {UpdateStack(StackRec, ureqs, lreqs)} :
          /\ st.todo = <<>>
          /\ SetStack([st EXCEPT !.asked = <<>>], "update")
          /\ applied' = st.asked
    /\ UNCHANGED <<gameVars, sceneVars, fxVars, smVars, worldVars>>

\* StateStack.render(surface)
StackRender ==
    /\ IF states = <<>>
       THEN \* range(-1, 0) yields -1 and self.states[-1] raises IndexError
            /\ stack_exc' = "IndexError"
            /\ stack_calls' = <<>>
            /\ stack_op' = "render"
            /\ states_before' = states
            /\ pending_before' = pending_actions
            /\ UNCHANGED <<states, pending_actions, stack_asked, paused, resume_ok>>
       ELSE \E st \in {RenderFrom(StackRec, RenderStart(states))} : SetStack(st, "render")
    /\ applied' = <<>>
    /\ UNCHANGED <<gameVars, sceneVars, fxVars, smVars, worldVars>>

StackNextInit == GameInit /\ SceneInit /\ SMIdle /\ StackInit /\ WorldIdle /\ BusInit /\ GridInit
    /\ FxIdle

StackNext ==
    \/ \E r \in Requests : StackRequest(r)
    \/ \E reqs \in ReqSeqs(MaxPending - Len(pending_actions)) : StackHandleEvent(reqs)
    \* the layers' updates issue all requests of rs, or all but the last, which
    \* then comes from the first lifecycle callback of the tick
    \/ \E rs \in ReqSeqs(MaxPending - Len(pending_actions)) :
          \E a \in {Len(rs), Len(rs) - 1} \cap Nat :
              StackUpdate(SubSeq(rs, 1, a), SubSeq(rs, a + 1, Len(rs)))
    \/ StackRender

SpecStack == StackNextInit /\ [][StackNext]_vars

-----------------------------------------------------------------------------
(* Transition requests made directly: Game.change_scene and the StateMachine *)

\* one call of Game.change_scene(new_state)
ChangeSceneCall(s) ==
    /\ SetScene(ChangeScene(SceneRec, s))
    /\ UNCHANGED <<gameVars, engineVars>>

SceneNextInit == GameInit /\ SceneInit /\ SMInit /\ StackInit /\ WorldIdle /\ BusInit /\ GridInit
    /\ FxIdle

SceneNext ==
    \/ \E s \in Registered \cup Unregistered : ChangeSceneCall(s)
    \/ \E n \in SMNames : SMAddState(n)
    \/ \E n \in SMNames : SMSetInitialState(n)
    \/ \E n \in SMNames : SMChangeState(n)
    \/ \E r \in SMNames \cup {"None"} : SMUpdate(r)

SpecScene == SceneNextInit /\ [][SceneNext]_vars

-----------------------------------------------------------------------------
(* The event bus on its own *)

BusNextInit == GameInit /\ SceneInit /\ SMIdle /\ StackInit /\ WorldIdle /\ BusInit /\ GridInit
    /\ FxIdle

BusNext ==
    \/ \E ev \in EventTypes, cb \in Handlers : BusSubscribe(ev, cb)
    \/ \E ev \in EventTypes, cb \in Handlers : BusUnsubscribe(ev, cb)
    \/ BusClearAll
    \/ \E ev \in EventTypes, raising \in SUBSET Handlers : BusEmitCall(ev, raising)
    \/ \E ev \in EventTypes, unsub \in Unsubs : BusEmitUnsubscribing(ev, unsub)

SpecBus == BusNextInit /\ [][BusNext]_vars

-----------------------------------------------------------------------------
(* The spatial grid on its own *)

GridNextInit == GameInit /\ SceneInit /\ SMIdle /\ StackInit /\ WorldIdle /\ BusInit /\ GridInit
    /\ FxIdle

GridNext ==
    \/ GridClear
    \/ \E e \in Entities : GridInsert(e)
    \/ \E b \in Rectangles : GridQueryRange(b)

SpecGrid == GridNextInit /\ [][GridNext]_vars

-----------------------------------------------------------------------------
(* The playing scene's use of the spatial grid: sessions, updates, renders *)

\* a dinosaur object: id stands for its identity
DinosaurAt(id, x, y) ==
    [id |-> id, x |-> x, y |-> y, aggressive |-> FALSE, just_attacked |-> FALSE]

\* the dinosaurs spawn_dinosaurs creates in session n: new objects
SessionSpawns(n) ==
    {<<DinosaurAt(10 * n + 1, x, 0), DinosaurAt(10 * n + 2, 39, 39)>> : x \in {19, 20}}

\* where Dinosaur.update may take the dinosaurs q: each stays or moves half
\* a tile along x, the first one across the border of two cells
DinosaurMoves(q) ==
    {[q EXCEPT ![1].x = x1, ![2].x = x2] : x1 \in {19, 20}, x2 \in {38, 39}}

\* IntroScene.handle_event: game.reset_game(), then change_scene(PLAYING)
ResetGame ==
    /\ ~in_session
    /\ sessions < MaxSessions
    /\ sessions' = sessions + 1
    /\ in_session' = TRUE
    /\ dinosaurs' \in SessionSpawns(sessions + 1)
    /\ GridObserve("reset_game")
    /\ UNCHANGED <<grid, grid_inserted>>
    /\ UNCHANGED <<player, items, lava_fields, spikes_enabled, col_op, col_before,
                   col_events, col_ticks, lava_run, run_hp0>>
    /\ UNCHANGED <<gameVars, sceneVars, fxVars, smVars, stackVars, busVars>>

\* PlayingScene.update: the grid is cleared and filled with the dinosaurs,
\* then every dinosaur is updated
PlayingUpdate ==
    /\ in_session
    /\ grid' = InsertAll(<<>>, dinosaurs, 1)
    /\ dinosaurs' \in DinosaurMoves(dinosaurs)
    /\ GridObserve("update")
    /\ UNCHANGED <<grid_inserted, in_session, sessions>>
    /\ UNCHANGED <<player, items, lava_fields, spikes_enabled, col_op, col_before,
                   col_events, col_ticks, lava_run, run_hp0>>
    /\ UNCHANGED <<gameVars, sceneVars, fxVars, smVars, stackVars, busVars>>

\* PlayingScene.render: _draw_entities asks the grid for the dinosaurs in the
\* camera's visible bounds b
PlayingRender(b) ==
    /\ in_session
    /\ grid_result' = query_range(grid, b)
    /\ grid_query' = b
    /\ grid_op' = "render"
    /\ UNCHANGED <<grid, grid_inserted, in_session, sessions>>
    /\ UNCHANGED <<collideVars, gameVars, sceneVars, fxVars, smVars, stackVars, busVars>>

\* the playing scene is left for the game over or win scene
LeaveSession ==
    /\ in_session
    /\ in_session' = FALSE
    /\ GridObserve("leave")
    /\ UNCHANGED <<grid, grid_inserted, sessions>>
    /\ UNCHANGED <<collideVars, gameVars, sceneVars, fxVars, smVars, stackVars, busVars>>

CullNextInit == GameInit /\ SceneInit /\ SMIdle /\ StackInit /\ WorldIdle /\ BusInit /\ GridInit
    /\ FxIdle

CullNext ==
    \/ ResetGame
    \/ PlayingUpdate
    \/ \E b \in Rectangles : PlayingRender(b)
    \/ LeaveSession

SpecCull == CullNextInit /\ [][CullNext]_vars

-----------------------------------------------------------------------------
(* A game session: the world and its collision ticks *)

CollideNextInit == GameInit /\ SceneInit /\ SMIdle /\ StackInit /\ WorldInit /\ BusInit /\ GridInit
    /\ FxIdle

CollideNext ==
    \/ \E pos \in Positions : MovePlayer(pos)
    \/ SetRepellent
    \/ \E fields \in LavaSpawns : SpawnLava(fields)
    \/ CollisionTick

SpecCollide == CollideNextInit /\ [][CollideNext]_vars

-----------------------------------------------------------------------------
(* The timers of the game sessions: key presses, updates, passing time *)

SessionNextInit == GameInit /\ SceneInit /\ SMIdle /\ StackInit /\ WorldIdle /\ BusInit /\ GridInit
    /\ SessionIdle /\ SmootherIdle /\ CameraIdle /\ ParticlesIdle /\ TransitionIdle /\ AnimationIdle

SessionNext ==
    \/ \E d \in 1..2 : ClockAdvance(d)
    \/ \E ev \in SessionKeys : SessionHandleEvent(ev)
    \/ \E generated \in LavaSpawns, on_boat \in BOOLEAN, dead \in BOOLEAN :
          SessionUpdate(generated, on_boat, dead)

SpecSession == SessionNextInit /\ [][SessionNext]_vars

-----------------------------------------------------------------------------
(* The DeltaSmoother on its own *)

SmootherNextInit == GameInit /\ SceneInit /\ SMIdle /\ StackInit /\ WorldIdle /\ BusInit /\ GridInit
    /\ SessionIdle /\ SmootherInit /\ CameraIdle /\ ParticlesIdle /\ TransitionIdle /\ AnimationIdle

SmootherNext ==
    \/ \E dt \in RawDts(ds_size) : Smooth(dt)
    \/ SmootherReset

SpecSmoother == SmootherNextInit /\ [][SmootherNext]_vars

-----------------------------------------------------------------------------
(* The Camera on its own *)

CameraNextInit == GameInit /\ SceneInit /\ SMIdle /\ StackInit /\ WorldIdle /\ BusInit /\ GridInit
    /\ SessionIdle /\ SmootherIdle /\ CameraInit /\ ParticlesIdle /\ TransitionIdle /\ AnimationIdle

\* the camera follows targets, zoomed and bounded, and converts points
CameraNext ==
    \/ \E zoom \in Zooms : CamSetZoom(zoom)
    \/ \E rect \in BoundsRects : CamSetBounds(rect)
    \/ CamSetDeadZone(8, 8)
    \/ \E t \in Targets : CamSetTarget(t)
    \/ \E dt \in CamDts, dir \in Directions : CamUpdate(dt, dir)
    \/ \E w \in WorldPoints : CamConvert(w)

SpecCamera == CameraNextInit /\ [][CameraNext]_vars

\* the camera is shaken while it is updated
ShakeNext ==
    \/ \E sh \in Shakes : CamShake(sh)
    \/ \E dt \in CamDts, dir \in Directions : CamUpdate(dt, dir)

SpecShake == CameraNextInit /\ [][ShakeNext]_vars

-----------------------------------------------------------------------------
(* The ParticleSystem on its own *)

ParticlesNextInit == GameInit /\ SceneInit /\ SMIdle /\ StackInit /\ WorldIdle /\ BusInit /\ GridInit
    /\ SessionIdle /\ SmootherIdle /\ CameraIdle /\ ParticlesInit /\ TransitionIdle /\ AnimationIdle

ParticlesNext ==
    \/ \E burst \in Bursts, gravity \in Gravities : PsEmit(burst, gravity)
    \/ \E dt \in ParticleDts : PsUpdate(dt)
    \/ PsClear

SpecParticles == ParticlesNextInit /\ [][ParticlesNext]_vars

-----------------------------------------------------------------------------
(* The Transition on its own *)

TransitionNextInit == GameInit /\ SceneInit /\ SMIdle /\ StackInit /\ WorldIdle /\ BusInit /\ GridInit
    /\ SessionIdle /\ SmootherIdle /\ CameraIdle /\ ParticlesIdle /\ TransitionInit
    /\ AnimationIdle

TransitionNext ==
    \/ \E kind \in FadeKinds, duration \in FadeDurations, callback \in FadeCallbacks :
          TrStart(kind, duration, callback)
    \/ \E dt \in TransitionDts : TrUpdate(dt)
    \/ TrRender

SpecTransition == TransitionNextInit /\ [][TransitionNext]_vars

-----------------------------------------------------------------------------
(* The Animation on its own *)

AnimationNextInit == GameInit /\ SceneInit /\ SMIdle /\ StackInit /\ WorldIdle /\ BusInit /\ GridInit
    /\ SessionIdle /\ SmootherIdle /\ CameraIdle /\ ParticlesIdle /\ TransitionIdle
    /\ AnimationInit

AnimationNext ==
    \/ \E dt \in AnimationDts : AnUpdate(dt)
    \/ AnReset

SpecAnimation == AnimationNextInit /\ [][AnimationNext]_vars

-----------------------------------------------------------------------------
(* The program: Game.__init__ followed by Game.run *)

Init == GameInit /\ SceneInit /\ SMIdle /\ StackInit /\ WorldIdle /\ BusInit /\ GridInit
    /\ FxIdle

Next ==
    \/ Tick
    \/ DispatchEvent
    \/ EventsDone
    \/ FixedUpdate
    \/ UpdatesDone
    \/ Render
    \/ LoopBodyRaises
    \/ ExceptClause
    \/ LoopExit
    \/ Cleanup

Spec == Init /\ [][Next]_vars

-----------------------------------------------------------------------------
(* Properties of Game.run (checked under Spec) *)

CountOf(log, c) == Cardinality({i \in 1..Len(log) : log[i] = c})

\* C1: after the fixed-step phase of every iteration (at the render, and back
\* at the loop test) the accumulator lies in [0, fixed_dt) and the cumulative
\* number of update(fixed_dt) calls is floor(total smoothed time / fixed_dt).
C1_AccumulatorBounded ==
    pc \in {"render", "loop"} =>
        /\ 0 <= accumulator
        /\ accumulator < FixedDt
        /\ update_calls = total_time \div FixedDt

\* an iteration that carried a remainder over and then ran several updates
C1_Witness ==
    /\ pc = "render" /\ frames >= 2
    /\ CountOf(iter_calls, "update") >= 2
    /\ accumulator > 0
    /\ update_calls >= 8

PhaseRank(c) == CASE c = "handle_event" -> 1 [] c = "update" -> 2 [] c = "render" -> 3

\* C2: in every iteration the scene calls come in the order handle_event*,
\* update*, render; no update or render happens while an event of the batch is
\* still to be dispatched; a completed iteration has rendered exactly once.
C2_PhaseOrder ==
    /\ \A i, j \in 1..Len(iter_calls) :
          i < j => PhaseRank(iter_calls[i]) <= PhaseRank(iter_calls[j])
    /\ CountOf(iter_calls, "render") <= 1
    /\ CountOf(iter_calls, "update") + CountOf(iter_calls, "render") > 0 => events = 0
    /\ CountOf(iter_calls, "handle_event") <= batch
    /\ (pc = "loop" /\ frames > 0) => CountOf(iter_calls, "render") = 1

\* a completed iteration with events, several updates and its one render
C2_Witness ==
    /\ pc = "loop" /\ frames > 0
    /\ CountOf(iter_calls, "handle_event") = 2
    /\ CountOf(iter_calls, "update") >= 3
    /\ CountOf(iter_calls, "render") = 1

\* C9: an exception raised by the loop body stops the loop and is caught inside
\* run; cleanup runs exactly once on that path and on the normal path, and only
\* SystemExit (from cleanup's sys.exit) leaves run.
C9_CleanupOnce ==
    /\ cleanup_calls <= 1
    /\ (pc = "exited") = (cleanup_calls = 1)
    /\ pc = "exited" => exc = "SystemExit"
    /\ exc = "Exception" => pc = "except"
    /\ caught => pc \in {"finally", "exited"}

\* shut down after an exception in the loop body
C9_Witness ==
    /\ pc = "exited" /\ caught /\ cleanup_calls = 1 /\ running

\* C10: once running is False the iteration in progress is completed (the rest
\* of the batch is iterated, the fixed updates and the render run), no further
\* iteration starts, cleanup runs only after the loop is left, and a QUIT
\* event is never passed to a scene's handle_event.
C10_CooperativeQuit ==
    /\ last_event # "QUIT"
    /\ (quit_frame # 0) = ~running
    /\ quit_frame # 0 => frames = quit_frame
    /\ cleanup_calls > 0 => pc = "exited"
    /\ (pc \in {"finally", "exited"} /\ ~caught) =>
          /\ ~running
          /\ events = 0
          /\ ~NeedsUpdate(accumulator)
          /\ CountOf(iter_calls, "render") = 1

\* the loop left normally after a quit that came with an event still to
\* dispatch and updates still to run
C10_Witness ==
    /\ pc = "finally" /\ ~caught
    /\ quit_left >= 1
    /\ CountOf(iter_calls, "handle_event") >= 1
    /\ CountOf(iter_calls, "update") >= 1

-----------------------------------------------------------------------------
(* Properties of the transition requests (checked under SpecScene) *)

\* C7: as long as only registered states are requested, a change_scene call
\* exits the previous scene and then enters the new one, which is the current
\* scene afterwards; every scene's on_enter/on_exit calls alternate starting
\* with on_enter, and the current scene is the only one entered and not exited.
C7_SceneSwap ==
    ~unknown_req =>
        /\ lifecycle_ok
        /\ live = {current_scene}
        /\ last_req # "" =>
              /\ current_scene = last_req
              /\ last_calls = <<<<"on_exit", prev_scene>>, <<"on_enter", last_req>>>>

\* a swap from the pause scene back to the playing scene
C7_Witness ==
    /\ ~unknown_req
    /\ prev_scene = "PAUSE" /\ last_req = "PLAYING" /\ current_scene = "PLAYING"

\* C8: a request naming an unknown target changes nothing: the current
\* scene/state stays, no on_exit/exit and no on_enter/enter runs, and no
\* exception escapes.
C8_UnknownTargetNoOp ==
    /\ last_req \in Unregistered =>
          /\ current_scene = prev_scene
          /\ last_calls = <<>>
          /\ exc = "none"
    /\ (sm_op \in {"change_state", "update"} /\ sm_req \notin sm_states \cup {"None"}) =>
          /\ sm_current = sm_prev
          /\ \A i \in 1..Len(sm_calls) : sm_calls[i][1] = "update"

\* C17: StateMachine.update on a machine with a current state and an entity
\* calls the update of the state that was current, once; if it returns the
\* name of a registered state, exit of the old state and enter of the new one
\* follow, once each, and the new state is not updated in that call.
C17_OneUpdatePerCall ==
    sm_op = "update" =>
        IF sm_prev # "None" /\ sm_entity # "None"
        THEN IF sm_req \in sm_states
             THEN /\ sm_calls = <<<<"update", sm_prev>>, <<"exit", sm_prev>>,
                                  <<"enter", sm_req>>>>
                  /\ sm_current = sm_req
             ELSE /\ sm_calls = <<<<"update", sm_prev>>>>
                  /\ sm_current = sm_prev
        ELSE sm_calls = <<>> /\ sm_current = sm_prev

\* an update whose state returned the name of another registered state
C17_Witness ==
    /\ sm_op = "update"
    /\ sm_req \in sm_states
    /\ sm_current # sm_prev
    /\ Len(sm_calls) = 3

-----------------------------------------------------------------------------
(* Properties of the StateStack (checked under SpecStack) *)

QueueOps == {"push", "pop", "replace", "clear"}

IsPrefix(p, q) == Len(p) <= Len(q) /\ SubSeq(q, 1, Len(p)) = p

\* C3: push/pop/replace/clear leave states alone and call no layer: they only
\* append to pending_actions; the queue is applied by update alone, after the
\* layer updates of that tick, in the order of the requests; handle_event,
\* update and render calls on layers all see the stack as it was when the tick
\* began.
C3_QueuedUntilUpdate ==
    /\ pending_actions = stack_asked
    /\ stack_op \in QueueOps =>
          /\ states = states_before
          /\ stack_calls = <<>>
          /\ Len(pending_actions) = Len(pending_before) + 1
          /\ IsPrefix(pending_before, pending_actions)
          /\ Top(pending_actions)[1] = stack_op
    /\ stack_op \in {"handle_event", "render"} =>
          /\ states = states_before
          /\ \A i \in 1..Len(stack_calls) :
                stack_calls[i].cb = stack_op /\ stack_calls[i].seen = states_before
    /\ stack_op = "update" =>
          /\ pending_actions = <<>>
          /\ IsPrefix(pending_before, applied)
          /\ states = StackEffects(states_before, applied)
          /\ \A i \in 1..Len(stack_calls) :
                stack_calls[i].cb = "update" =>
                   /\ stack_calls[i].seen = states_before
                   /\ \A j \in 1..(i - 1) : stack_calls[j].cb = "update"

\* an update that applied an action queued before the tick and one requested
\* during it, after updating a layer
C3_Witness ==
    /\ stack_op = "update"
    /\ pending_before # <<>>
    /\ Len(applied) > Len(pending_before)
    /\ states # states_before
    /\ \E i \in 1..Len(stack_calls) : stack_calls[i].cb = "update"

\* in the last update, while action k was applied, callback c1 of layer l1
\* came before callback c2 of layer l2
CalledBefore(k, c1, l1, c2, l2) ==
    \E i, j \in 1..Len(stack_calls) :
        /\ i < j
        /\ stack_calls[i].cb = c1 /\ stack_calls[i].layer = l1 /\ stack_calls[i].at = k
        /\ stack_calls[j].cb = c2 /\ stack_calls[j].layer = l2 /\ stack_calls[j].at = k

\* C4: with distinct layer instances: replace exits the old top before it enters
\* the new one, push onto a non-empty stack pauses the old top before it enters
\* the new one, pop exits the removed layer before it resumes the exposed one;
\* on_resume only goes to a paused layer, and exactly the layers below the top
\* are paused.
C4_LifecycleOrder ==
    /\ resume_ok
    /\ paused = {states[i] : i \in 1..(Len(states) - 1)}
    /\ stack_op = "update" =>
          \A k \in 1..Len(applied) :
              LET q == StackEffects(states_before, SubSeq(applied, 1, k - 1))
                  act == applied[k]
              IN /\ (act[1] = "replace" /\ q # <<>>) =>
                        CalledBefore(k, "on_exit", Top(q), "on_enter", act[2])
                 /\ (act[1] = "push" /\ q # <<>>) =>
                        CalledBefore(k, "on_pause", Top(q), "on_enter", act[2])
                 /\ (act[1] = "pop" /\ Len(q) >= 2) =>
                        CalledBefore(k, "on_exit", Top(q), "on_resume", q[Len(q) - 1])

\* an update that pushed onto a non-empty stack and popped again
C4_Witness ==
    /\ stack_op = "update"
    /\ \E i, j \in 1..Len(stack_calls) :
          /\ i < j
          /\ stack_calls[i].cb = "on_pause"
          /\ stack_calls[j].cb = "on_resume"
          /\ stack_calls[i].layer = stack_calls[j].layer

\* C5: update and handle_event reach a layer exactly when every layer above
\* it is non-blocking.
C5_BlockingStopsPropagation ==
    stack_op \in {"update", "handle_event"} =>
        \A i \in 1..Len(states_before) :
            (\E n \in 1..Len(stack_calls) :
                 /\ stack_calls[n].cb = stack_op
                 /\ stack_calls[n].at = i
                 /\ stack_calls[n].layer = states_before[i])
            <=> (\A j \in (i + 1)..Len(states_before) : ~is_blocking(states_before[j]))

\* an update with the pause layer on top of the playing layer: playing is not
\* updated
C5_Witness ==
    /\ stack_op = "update"
    /\ states_before = <<"playing", "pause">>
    /\ \A n \in 1..Len(stack_calls) : stack_calls[n].layer # "playing"
    /\ \E n \in 1..Len(stack_calls) : stack_calls[n].cb = "update"

\* C6: render draws a layer exactly when every layer above it is
\* transparent, bottom first.
C6_TransparentRender ==
    (stack_op = "render" /\ stack_exc = "none") =>
        /\ \A i \in 1..Len(states) :
              (\E n \in 1..Len(stack_calls) :
                   stack_calls[n].at = i /\ stack_calls[n].layer = states[i])
              <=> (\A j \in (i + 1)..Len(states) : is_transparent(states[j]))
        /\ \A m, n \in 1..Len(stack_calls) :
              m < n => stack_calls[m].at < stack_calls[n].at

-----------------------------------------------------------------------------
(* Properties of check_collisions (checked under SpecCollide) *)

\* the tile of the player in the last call (check_collisions does not move it)
OnLava == <<IntOf(player.x), IntOf(player.y)>> \in lava_fields
OnSpikes == spikes_enabled /\ game_map[IntOf(player.y)][IntOf(player.x)] = SpikeId

\* dinosaurs that attack in the last call: on the player's tile, aggressive,
\* and the repellent is not active
Attackers ==
    {i \in 1..Len(col_before.dinosaurs) :
        /\ IntOf(col_before.dinosaurs[i].x) = IntOf(player.x)
        /\ IntOf(col_before.dinosaurs[i].y) = IntOf(player.y)
        /\ col_before.dinosaurs[i].aggressive
        /\ ~col_before.player.repellent_active}

\* items on the player's tile when the last call began
OnPlayerTile(it) == IntOf(it.x) = IntOf(player.x) /\ IntOf(it.y) = IntOf(player.y)
Picked == {i \in 1..Len(col_before.items) : OnPlayerTile(col_before.items[i])}
NotOnPlayerTile(it) == ~OnPlayerTile(it)

EventsOf(kind) == {n \in 1..Len(col_events) : col_events[n][1] = kind}
DamageFrom(source) ==
    {n \in EventsOf("player_damaged") : col_events[n][3] = source}

\* C11: one check_collisions call takes LAVA_DAMAGE if the player's tile is a
\* lava field, plus SPIKE_DAMAGE if spikes are enabled and the tile is a spike
\* tile, plus DINOSAUR_ATTACK_DAMAGE per attacking dinosaur, and picks up the
\* items of the tile whatever the damage; n calls on lava alone take
\* n * LAVA_DAMAGE.
C11_HazardsAdditive ==
    /\ col_op = "check" =>
          /\ player.hp = col_before.player.hp
                           - (IF OnLava THEN LAVA_DAMAGE ELSE 0)
                           - (IF OnSpikes THEN SPIKE_DAMAGE ELSE 0)
                           - DINOSAUR_ATTACK_DAMAGE * Cardinality(Attackers)
          /\ Len(items) = Len(col_before.items) - Cardinality(Picked)
    /\ lava_run > 0 => player.hp = run_hp0 - lava_run * LAVA_DAMAGE

\* a call in which lava, spikes and a dinosaur hit and an item is picked up
C11_Witness ==
    /\ col_op = "check"
    /\ OnLava /\ OnSpikes /\ Attackers # {} /\ Picked # {}
    /\ player.hp <= col_before.player.hp - LAVA_DAMAGE - SPIKE_DAMAGE - DINOSAUR_ATTACK_DAMAGE

\* C12: one call picks up exactly the items on the player's tile: one
\* inventory increment, +10 score and one item_picked_up event per item, the
\* other items stay as they are, and no remaining item is on the player's tile.
C12_ItemPickup ==
    col_op = "check" =>
        /\ items = SelectSeq(col_before.items, NotOnPlayerTile)
        /\ \A n \in 1..Len(items) : ~OnPlayerTile(items[n])
        /\ \A t \in ItemTypes :
              player.inventory[t] = col_before.player.inventory[t]
                  + Cardinality({i \in Picked : col_before.items[i].type = t})
        /\ player.score = col_before.player.score + 10 * Cardinality(Picked)
        /\ Cardinality(EventsOf("item_picked_up")) = Cardinality(Picked)
        /\ \A i \in Picked :
              LET it == col_before.items[i]
                  ev == <<"item_picked_up", it.type, it.x, it.y>>
              IN Cardinality({n \in 1..Len(col_events) : col_events[n] = ev})
                 = Cardinality({j \in Picked :
                        /\ col_before.items[j].type = it.type
                        /\ col_before.items[j].x = it.x
                        /\ col_before.items[j].y = it.y})

\* a call that picks up two items at once
C12_Witness ==
    /\ col_op = "check"
    /\ Cardinality(Picked) = 2
    /\ items = <<>>

\* C13: a dinosaur damages the player and is marked just_attacked exactly when
\* it is on the player's tile, aggressive, and the repellent is not active;
\* each such dinosaur damages once per call.
C13_DinosaurAttack ==
    col_op = "check" =>
        /\ Len(dinosaurs) = Len(col_before.dinosaurs)
        /\ \A i \in 1..Len(dinosaurs) :
              /\ dinosaurs[i].just_attacked
                    = (col_before.dinosaurs[i].just_attacked \/ i \in Attackers)
              /\ dinosaurs[i].x = col_before.dinosaurs[i].x
              /\ dinosaurs[i].y = col_before.dinosaurs[i].y
              /\ dinosaurs[i].aggressive = col_before.dinosaurs[i].aggressive
        /\ Cardinality(DamageFrom("dinosaur")) = Cardinality(Attackers)
        /\ \A n \in DamageFrom("dinosaur") : col_events[n][2] = DINOSAUR_ATTACK_DAMAGE
        /\ player.hp + LAVA_DAMAGE * Cardinality(DamageFrom("lava"))
                     + SPIKE_DAMAGE * Cardinality(DamageFrom("spikes"))
              = col_before.player.hp - DINOSAUR_ATTACK_DAMAGE * Cardinality(Attackers)

\* a call with an aggressive dinosaur on the player's tile while the repellent
\* is active: no attack
C13_Witness ==
    /\ col_op = "check"
    /\ col_before.player.repellent_active
    /\ \E i \in 1..Len(dinosaurs) :
          /\ dinosaurs[i].aggressive
          /\ IntOf(dinosaurs[i].x) = IntOf(player.x)
          /\ IntOf(dinosaurs[i].y) = IntOf(player.y)
          /\ ~dinosaurs[i].just_attacked

EventRank(ev) ==
    IF ev[1] = "item_picked_up" THEN 4
    ELSE IF ev[3] = "lava" THEN 1
    ELSE IF ev[3] = "spikes" THEN 2
    ELSE 3

\* C14: the events of one call come in the order lava, spikes, dinosaurs,
\* items.
C14_EventOrder ==
    \A m, n \in 1..Len(col_events) :
        m < n => EventRank(col_events[m]) <= EventRank(col_events[n])

\* a call that emitted events of all four kinds
C14_Witness ==
    /\ col_op = "check"
    /\ {EventRank(col_events[n]) : n \in 1..Len(col_events)} = 1..4

\* C15: the player's hp stays within [0, PLAYER_MAX_HP].
C15_HpInRange == player.hp >= 0 /\ player.hp <= PLAYER_MAX_HP

-----------------------------------------------------------------------------
(* Properties of the EventBus (checked under SpecBus) *)

IsRaising(cb) == cb \in bus_raising

\* C16: emit calls every callback subscribed to the event once, in
\* subscription order, also after callbacks that raise; the exceptions are
\* logged and none leaves emit.
C16_EmitReachesAll ==
    /\ \A ev \in DOMAIN listeners :
          \A m, n \in 1..Len(listeners[ev]) :
              m # n => listeners[ev][m] # listeners[ev][n]
    /\ bus_op = "emit" =>
          /\ bus_exc = "none"
          /\ bus_calls = IF bus_event \in DOMAIN listeners
                         THEN listeners[bus_event] ELSE <<>>
          /\ bus_errors = SelectSeq(bus_calls, IsRaising)

\* an emit to three callbacks of which the first two raise
C16_Witness ==
    /\ bus_op = "emit"
    /\ Len(bus_calls) = 3
    /\ bus_errors = SubSeq(bus_calls, 1, 2)

-----------------------------------------------------------------------------
(* Properties of the SpatialGrid (checked under SpecGrid) *)

\* number of times id occurs in the sequence q
Occurrences(q, id) == Cardinality({n \in 1..Len(q) : q[n] = id})

\* C18: entities inserted once each after a clear are each stored in exactly
\* one bucket, the one of (floor(x / cell_size), floor(y / cell_size)), and
\* query_range over the whole map returns each of them exactly once and
\* nothing else.
C18_QueryWholeMap ==
    /\ \A n \in 1..Len(grid_inserted) :
          LET e == grid_inserted[n]
          IN \A k \in DOMAIN grid :
                Occurrences(grid[k], e.id)
                   = IF k = <<e.x \div (PosScale * cell_size), e.y \div (PosScale * cell_size)>>
                     THEN 1 ELSE 0
    /\ (grid_op = "query_range" /\ grid_query = WholeMap) =>
          /\ Len(grid_result) = Len(grid_inserted)
          /\ \A n \in 1..Len(grid_inserted) :
                Occurrences(grid_result, grid_inserted[n].id) = 1

\* the whole map queried with two entities in one bucket, one of them at a
\* cell boundary
C18_Witness ==
    /\ grid_op = "query_range" /\ grid_query = WholeMap
    /\ Len(grid_result) = 2
    /\ \E k \in DOMAIN grid : Len(grid[k]) = 2
    /\ \E n \in 1..Len(grid_inserted) : grid_inserted[n].x = 20

-----------------------------------------------------------------------------
(* Properties of the playing scene's culling (checked under SpecCull) *)

\* the entities stored in the grid
GridIds == UNION {{grid[k][n] : n \in 1..Len(grid[k])} : k \in DOMAIN grid}
DinosaurIds == {dinosaurs[n].id : n \in 1..Len(dinosaurs)}

\* C19: at every render of the playing scene the grid holds exactly the
\* dinosaurs of game.dinosaurs.
C19_NoStaleEntities ==
    grid_op = "render" => GridIds = DinosaurIds

\* the dinosaur's position lies in the rectangle b (whole tiles)
Inside(dino, b) ==
    /\ b[1] * PosScale <= dino.x /\ dino.x < b[3] * PosScale
    /\ b[2] * PosScale <= dino.y /\ dino.y < b[4] * PosScale

\* C20: at every render, every dinosaur whose position lies inside the
\* visible bounds is among the entities query_range returns for them.
C20_VisibleAreDrawn ==
    grid_op = "render" =>
        \A n \in 1..Len(dinosaurs) :
            Inside(dinosaurs[n], grid_query) =>
                \E m \in 1..Len(grid_result) : grid_result[m] = dinosaurs[n].id

-----------------------------------------------------------------------------
(* Properties of the session timers (checked under SpecSession) *)

\* C21: lava_fields and last_lava_time are changed only by a lava spawn and
\* by reset_game. An update spawns exactly when now - last_lava_time >=
\* LAVA_INTERVAL; the spawn makes lava_fields the generated tile set, nothing
\* else, and sets last_lava_time to now; any other update, and any other
\* handler, leaves both as they were.
C21_LavaOnlyBySpawn ==
    ses_op # "init" =>
        LET b == ses_before
        IN /\ ses_op = "update" =>
                /\ ses_spawned <=> (clock - b.last_lava_time >= LAVA_INTERVAL)
                /\ ses_spawned => lava_fields = ses_generated /\ last_lava_time = clock
                /\ ~ses_spawned => /\ lava_fields = b.lava_fields
                                   /\ last_lava_time = b.last_lava_time
           /\ ses_op = "reset_game" => lava_fields = {} /\ last_lava_time = clock
           /\ ses_op \notin {"update", "reset_game"} =>
                /\ lava_fields = b.lava_fields
                /\ last_lava_time = b.last_lava_time

\* a spawn replaced a field by a set that does not hold all of its tiles
C21_Witness ==
    /\ ses_op = "update"
    /\ ses_spawned
    /\ ses_before.lava_fields \ ses_generated # {}
    /\ ses_generated # {}

\* C22: in a session the boat is placed at most once. boat_active becomes
\* True in the first update whose elapsed time (now - start_time) spans
\* BOAT_ARRIVAL_CYCLES cycles, place_boat is called in that update and in no
\* other, and boat_active stays True until reset_game.
C22_BoatPlacedOnce ==
    /\ boat_calls <= 1
    /\ boat_active <=> boat_calls = 1
    /\ boat_active <=> boat_due_seen
    /\ ses_op # "init" =>
        LET b == ses_before
            due == ((clock - b.start_time) \div CYCLE_LENGTH) >= BOAT_ARRIVAL_CYCLES
        IN /\ ses_op = "update" =>
                /\ boat_active <=> (b.boat_active \/ due)
                /\ boat_calls = b.boat_calls + (IF due /\ ~b.boat_active THEN 1 ELSE 0)
           /\ ses_op = "reset_game" => ~boat_active /\ boat_calls = 0
           /\ ses_op \notin {"update", "reset_game"} =>
                /\ boat_active <=> b.boat_active
                /\ boat_calls = b.boat_calls

\* an update finds the boat due again after it was placed
C22_Witness ==
    /\ ses_op = "update"
    /\ ses_before.boat_active
    /\ ((clock - ses_before.start_time) \div CYCLE_LENGTH) >= BOAT_ARRIVAL_CYCLES
    /\ boat_calls = 1

-----------------------------------------------------------------------------
(* Properties of the DeltaSmoother (checked under SpecSmoother) *)

\* the raw sample dt limited to 1 ms .. 100 ms
Clamped(dt) == IF dt < 1 THEN 1 ELSE IF dt > 100 THEN 100 ELSE dt

\* the last k members of the sequence q
LastOf(q, k) == SubSeq(q, Len(q) - k + 1, Len(q))

-----------------------------------------------------------------------------
(* Properties of the Camera's shake (checked under SpecShake) *)

\* C24: shake(intensity, duration, falloff) restarts the shake: whatever shake
\* was in progress, afterwards shake_intensity, shake_duration and
\* shake_falloff are the arguments and shake_timer is the new duration;
\* nothing of the previous shake is added or kept.
C24_ShakeLastCallWins ==
    cam_op = "shake" =>
        /\ camera.shake_intensity = cam_args[1]
        /\ camera.shake_duration = cam_args[2]
        /\ camera.shake_timer = cam_args[2]
        /\ camera.shake_falloff = cam_args[3]

\* a weaker and shorter shake interrupts one that still has more time left
\* than the new one lasts
C24_Witness ==
    /\ cam_op = "shake"
    /\ cam_before.shake_timer > cam_args[2]
    /\ cam_before.shake_intensity > cam_args[1]

\* C25: after every Camera.update, if the camera is not shaking
\* (shake_timer <= 0) then shake_offset_x and shake_offset_y are both 0, also
\* after the update in which the timer runs out.
C25_NoOffsetWhenNotShaking ==
    (cam_op = "update" /\ ~is_shaking(camera)) =>
        /\ camera.shake_offset_x = R(0)
        /\ camera.shake_offset_y = R(0)

-----------------------------------------------------------------------------
(* Properties of the Camera's position (checked under SpecCamera) *)

\* C26: when bounds are set, after every Camera.update the viewport lies
\* inside the bounds rectangle on both axes: bounds.x <= x and
\* x + width/zoom <= bounds.right, bounds.y <= y and
\* y + height/zoom <= bounds.bottom, for every target and every zoom in
\* [0.1, 5.0].
C26_ViewportInsideBounds ==
    (cam_op = "update" /\ camera.bounds_rect # NoRect) =>
        LET b == camera.bounds_rect
            view_width == RDiv(R(camera.width), camera.zoom)
            view_height == RDiv(R(camera.height), camera.zoom)
        IN /\ RLe(R(b[1]), camera.x)
           /\ RLe(RAdd(camera.x, view_width), R(RectRight(b)))
           /\ RLe(R(b[2]), camera.y)
           /\ RLe(RAdd(camera.y, view_height), R(RectBottom(b)))

\* the pixel of the world point relative to the camera, before truncation
PixelX(c, w) == RSub(RMul(w[1], R(TILE_SIZE)), c.x)
PixelY(c, w) == RSub(RMul(w[2], R(TILE_SIZE)), c.y)

\* a and b differ by less than one pixel, in tiles
WithinPixel(a, b) == RLt(RAbs(RSub(a, b)), <<1, TILE_SIZE>>)

\* C27: with zoom = 1 and no shake offset, screen_to_world of
\* world_to_screen(x, y) is within one pixel (1/TILE_SIZE tile) of (x, y) on
\* each axis, and equals (x, y) on an axis whose pixel coordinate relative
\* to the camera is an integer.
C27_RoundTripWithinPixel ==
    (/\ cam_op = "convert"
     /\ camera.zoom = R(1)
     /\ camera.shake_offset_x = R(0)
     /\ camera.shake_offset_y = R(0)) =>
        /\ WithinPixel(cam_world[1], cam_args[1])
        /\ WithinPixel(cam_world[2], cam_args[2])
        /\ PixelX(camera, cam_args)[2] = 1 => cam_world[1] = cam_args[1]
        /\ PixelY(camera, cam_args)[2] = 1 => cam_world[2] = cam_args[2]

\* a point converted by a camera that has moved to a fractional position:
\* one axis is truncated, towards zero from a negative pixel coordinate, and
\* the other axis is exact
C27_Witness ==
    /\ cam_op = "convert"
    /\ camera.zoom = R(1)
    /\ camera.shake_offset_x = R(0)
    /\ camera.shake_offset_y = R(0)
    /\ cam_updates > 0
    /\ cam_world[1] # cam_args[1]
    /\ RLt(PixelX(camera, cam_args), R(0))
    /\ cam_world[2] = cam_args[2]

\* the offset d1 has the sign of d0 and is smaller in magnitude
AxisCloser(d0, d1) ==
    IF d0[1] > 0 THEN RLe(R(0), d1) /\ RLt(d1, d0)
    ELSE IF d0[1] < 0 THEN RLe(d1, R(0)) /\ RLt(d0, d1)
    ELSE d1 = R(0)

\* an update towards the target it started with, while nothing shakes
StationaryUpdate ==
    /\ cam_op = "update"
    /\ ~is_shaking(cam_before)
    /\ TargetCam(camera) = TargetCam(cam_before)

\* the offsets from the camera to its target camera position
OffsetX(c) == RSub(TargetCam(c)[1], c.x)
OffsetY(c) == RSub(TargetCam(c)[2], c.y)

-----------------------------------------------------------------------------
(* Properties of the ParticleSystem (checked under SpecParticles) *)

\* the particle of the sequence q with the id i
ById(q, i) == q[CHOOSE n \in 1..Len(q) : q[n].id = i]

\* C29: a particle with lifetime L stays in the ParticleSystem after every
\* update for which its accumulated age is < L, is removed by the first
\* update at which age >= L, and never reappears; after any update every
\* retained particle has age < lifetime.
C29_RemovedAtLifetime ==
    /\ \A n \in 1..Len(particles) : particles[n].age < particles[n].lifetime
    /\ Ids(particles) \cap ps_removed = {}
    /\ ps_op = "update" =>
          /\ Ids(particles) \subseteq Ids(ps_before)
          /\ \A i \in Ids(ps_before) :
                LET p == ById(ps_before, i)
                IN /\ p.age < p.lifetime
                   /\ (i \in Ids(particles)) = (p.age + ps_dt < p.lifetime)
                   /\ i \in Ids(particles) => ById(particles, i).age = p.age + ps_dt

\* an update at which the age of one particle reaches its lifetime exactly,
\* after an update it lived through, while a particle emitted with it stays
C29_Witness ==
    /\ ps_op = "update"
    /\ ps_dt > 0
    /\ particles # <<>>
    /\ \E i \in Ids(ps_before) \ Ids(particles) :
          LET p == ById(ps_before, i)
          IN p.age > 0 /\ p.age + ps_dt = p.lifetime

\* C30: after every Particle.update(dt) with dt >= 0 the particle's alpha is
\* 255 * (1 - age/lifetime) clamped non-negative: within [0, 255], also on
\* the update in which age exceeds lifetime.
C30_AlphaInRange ==
    (ps_op = "update" /\ ps_dt >= 0) =>
        \A n \in 1..Len(ps_updated) :
            /\ ps_updated[n].alpha >= 0
            /\ ps_updated[n].alpha <= 255

-----------------------------------------------------------------------------
(* Properties of a paused, ended and restarted session (checked under      *)
(* SpecSession)                                                            *)

\* C31: pausing and resuming does not reset the session clock: after the
\* key press that takes PAUSE back to PLAYING, start_time is what it was
\* before.
C31_PauseKeepsStartTime ==
    (ses_op = "handle_event" /\ prev_scene = "PAUSE" /\ current_scene = "PLAYING") =>
        start_time = ses_before.start_time

\* C32: one PlayingScene.update performs at most one scene change: it leaves
\* PLAYING with one on_exit and one on_enter, and a tick that enters WON
\* ends in WON.
C32_OneSceneChangePerTick ==
    (ses_op = "update" /\ current_scene # "PLAYING") =>
        /\ Len(last_calls) = 2
        /\ InSeq(<<"on_enter", "WON">>, last_calls) => current_scene = "WON"

\* the update began with 0 < time_until_lava <= lava_warning_time
InWarningWindow ==
    LET time_until_lava == TimeUntilLava(clock, ses_before.last_lava_time)
    IN 0 < time_until_lava /\ time_until_lava <= lava_warning_time

\* C33: in every lava cycle of every session, once the playing scene has
\* been updated inside the warning window the flash has been triggered
\* exactly once in that cycle, also in the first cycle of a game started
\* after an earlier session ended during a warning window.
C33_WarningOncePerCycle ==
    /\ warn_calls <= 1
    /\ (ses_op = "update" /\ InWarningWindow) => warn_calls = 1

-----------------------------------------------------------------------------
(* Properties of an emit whose callbacks unsubscribe (checked under SpecBus) *)

\* C34: if a handler unsubscribes itself or another handler of the event
\* while the event is emitted, every handler that was subscribed when the
\* emit began and has not been unsubscribed is invoked exactly once in that
\* emission, and no handler is invoked twice.
C34_EmitSurvivesUnsubscribe ==
    bus_op = "emit_unsubscribing" =>
        /\ \A cb \in Handlers : CountOf(bus_calls, cb) <= 1
        /\ \A n \in 1..Len(bus_before) :
              Subscribed(listeners, bus_event, bus_before[n]) =>
                  CountOf(bus_calls, bus_before[n]) = 1

-----------------------------------------------------------------------------
(* Properties of the StateStack's queue and of an empty stack (checked     *)
(* under SpecStack)                                                        *)

\* number of calls of the lifecycle callback cb made in the last update
\* while action k was applied
LifecycleCalls(cb, k) ==
    Cardinality({i \in 1..Len(stack_calls) :
                    stack_calls[i].cb = cb /\ stack_calls[i].at = k})

\* number of layer updates of the last update
LayerUpdates == Cardinality({i \in 1..Len(stack_calls) : stack_calls[i].cb = "update"})

C36_EmptyStackSafe ==
    (states_before = <<>> /\ stack_op \in {"handle_event", "update", "render"}) =>
        /\ stack_exc = "none"
        /\ stack_op \in {"handle_event", "render"} => stack_calls = <<>>
        /\ (stack_op = "update" /\ applied # <<>>) =>
              /\ applied[1][1] = "pop" =>
                    \A i \in 1..Len(stack_calls) : stack_calls[i].at # 1
              /\ applied[1][1] = "replace" =>
                    \A i \in 1..Len(stack_calls) :
                        stack_calls[i].at = 1 => stack_calls[i].cb = "on_enter"

-----------------------------------------------------------------------------
(* Properties of the catch-up work of Game.run (checked under Spec) *)

\* the most fixed updates one iteration can run: 0.1 s / fixed_dt
MaxUpdatesPerFrame == (100 * UnitsPerMs) \div FixedDt

-----------------------------------------------------------------------------
(* Properties of the Transition (checked under SpecTransition) *)

\* C38: crossfade(duration, callback) fades out and then in: the callback
\* is invoked once, at the midpoint, and once enough update time has passed
\* (twice the duration) the transition is inactive with alpha 0 and render
\* draws no overlay.
C38_CrossfadeEndsClear ==
    (tr_obs.kind = "crossfade" /\ tr_obs.elapsed >= 2 * tr_obs.total) =>
        /\ tr_obs.cb_calls = (IF tr_obs.cb = UserCallback THEN 1 ELSE 0)
        /\ ~transition.active
        /\ transition.alpha = 0
        /\ tr_obs.op = "render" => tr_obs.overlay = -1

-----------------------------------------------------------------------------
(* Properties of the Animation (checked under SpecAnimation) *)

\* C39: for a non-looping Animation with at least one frame and any
\* update(dt) calls with dt >= 0, on_complete is invoked exactly once, at the
\* update in which the animation finishes; afterwards it stays finished on
\* its last frame, and current_frame is always within [0, len(frames) - 1].
C39_CompleteOnce ==
    /\ animation.current_frame >= 0
    /\ animation.current_frame <= animation.frames - 1
    /\ (~animation.loop /\ animation.on_complete) =>
          /\ an_obs.complete_calls <= 1
          /\ animation.finished <=> an_obs.complete_calls = 1
          /\ animation.finished => animation.current_frame = animation.frames - 1

====
